---- MODULE Spec2Model ----
(***************************************************************************)
(* A model of the DOM snapshot and addressing engine of browsermagic-dom:  *)
(* getXPath, findElementByXPath and takeSnapshot (library and core         *)
(* variants) over a bounded family of documents, and of the tools built    *)
(* on them: isElementVisible, findElement, Perform, AgentTools, Extract,   *)
(* Navigate, and the waits of tools/utils.js.                              *)
(*                                                                         *)
(* A document is a set of elements 1..n.  Element 1 is the document        *)
(* element (html), element 2 is document.body.  parent[i] is the parent    *)
(* node of element i: the Document, another element, the shadow root       *)
(* attached to an element, or null for a detached element.  Siblings are   *)
(* ordered by element number.  Strings that the code builds or parses      *)
(* (XPath locators) are sequences of tokens; visible texts are sequences   *)
(* of characters.                                                          *)
(***************************************************************************)
EXTENDS Integers, Sequences, FiniteSets, TLC

VARIABLES tag, parent, render, text,
          op, xpArg, xpRet, feArg, feRet, options, snapshot,
          arg, result, events,
          earlier, batchResults, loopIndex, executed, promise, rejection, timer, observer, settleCalls, seenMatch, appeared, now, timers, listener, firstEvent, loaded, controls, before

vars == <<tag, parent, render, text, op, xpArg, xpRet, feArg, feRet, options, snapshot,
          arg, result, events,
          earlier, batchResults, loopIndex, executed, promise, rejection, timer, observer, settleCalls, seenMatch, appeared, now, timers, listener, firstEvent, loaded, controls, before>>

docVars == <<tag, parent, render, text>>

\* The state of the calls of the tools: the argument handed over, what the
\* call returned, and the events the last call dispatched.
toolVars == <<arg, result, events>>

\* The state the later sections add; earlier is the outcome of the call
\* before the last one.

\* The loop of executeCommands: its results object, the index of the next
\* command, and the indexes of the commands executed so far.
batchVars == <<batchResults, loopIndex, executed>>

\* Whether the selector of a wait has matched, and whether a matching
\* element has come into existence since the click.
matchVars == <<seenMatch, appeared>>

\* The clock, the armed timers, the load listener, and the load events of
\* the page.
clockVars == <<now, timers, listener, firstEvent, loaded>>

\* The form controls now and at the last call.
formVars == <<controls, before>>

runtimeVars == <<earlier, batchResults, loopIndex, executed,
                 promise, rejection, timer, observer, settleCalls, seenMatch, appeared,
                 now, timers, listener, firstEvent, loaded, controls, before>>

\* Number of elements besides html and body in the documents of SpecPath.
MaxPathElems == 3

\* Number of elements besides html and body in the documents of SpecSnap.
MaxSnapElems == 2

---------------------------------------------------------------------------
(* Node references *)

Document == [k |-> "document", i |-> 0]

Null == [k |-> "null", i |-> 0]

El(i) == [k |-> "element", i |-> i]

SR(i) == [k |-> "shadowroot", i |-> i]

Elems == DOMAIN tag

\* Node.nodeType === Node.ELEMENT_NODE
IsElementNode(n) == n.k = "element"

\* node.parentNode: a shadow root and the document have none.
parentNode(n) == IF IsElementNode(n) THEN parent[n.i] ELSE Null

\* The members of a set of element numbers in increasing order.
Sorted(S) ==
  [k \in 1 .. Cardinality(S) |-> CHOOSE x \in S : Cardinality({y \in S : y < x}) = k - 1]

\* node.children: the child elements of a node, in sibling order.
children(n) == Sorted({j \in Elems : parent[j] = n})

\* element.shadowRoot: the open shadow root attached to an element, or null.
shadowRoot(n) ==
  IF IsElementNode(n) /\ \E j \in Elems : parent[j] = SR(n.i) THEN SR(n.i) ELSE Null

\* document.documentElement and document.body
documentElement == El(1)

body == El(2)

---------------------------------------------------------------------------
(* Tag names and letter case *)

\* String.prototype.toUpperCase on the names of the model.
ToUpperCase(s) ==
  CASE s = "html" -> "HTML"
    [] s = "body" -> "BODY"
    [] s = "div"  -> "DIV"
    [] s = "li"   -> "LI"
    [] s = "Li"   -> "LI"
    [] s = "svg"  -> "SVG"
    [] s = "button" -> "BUTTON"
    [] s = "p"    -> "P"
    [] s = "input" -> "INPUT"
    [] OTHER      -> s

\* String.prototype.toLowerCase on the names of the model.
ToLowerCase(s) ==
  CASE s = "HTML" -> "html"
    [] s = "BODY" -> "body"
    [] s = "DIV"  -> "div"
    [] s = "LI"   -> "li"
    [] s = "Li"   -> "li"
    [] s = "SVG"  -> "svg"
    [] s = "BUTTON" -> "button"
    [] s = "P"    -> "p"
    [] s = "INPUT" -> "input"
    [] s = "CSS"   -> "css"
    [] s = "XPath" -> "xpath"
    [] s = "A"     -> "a"
    [] OTHER      -> s

\* The namespace the HTML parser gives an element: svg elements are in the
\* SVG namespace, every other tag of the model in the HTML namespace.
IsHTMLElement(i) == tag[i] # "svg"

\* element.tagName: upper case for HTML elements, as written for the others.
tagName(i) == IF IsHTMLElement(i) THEN ToUpperCase(tag[i]) ELSE tag[i]

\* Number.prototype.toString for the sibling indexes of the model.
Digits == <<"1", "2", "3", "4", "5", "6", "7", "8", "9">>

IntToString(k) == IF k = 0 THEN "0" ELSE Digits[k]

IsDigits(s) == s = "0" \/ \E k \in DOMAIN Digits : Digits[k] = s

ParseInt(s) == IF s = "0" THEN 0 ELSE CHOOSE k \in DOMAIN Digits : Digits[k] = s

---------------------------------------------------------------------------
(* getXPath *)

Return(v) == [threw |-> FALSE, val |-> v]

Throw == [threw |-> TRUE, val |-> <<>>]

\* Array.prototype.join("/") on a list of segments (token sequences).
RECURSIVE Join(_)
Join(path) ==
  IF path = <<>> THEN <<>>
  ELSE IF Len(path) = 1 THEN path[1]
  ELSE path[1] \o <<"/">> \o Join(Tail(path))

\* The siblings array: child elements of current's parent with current's tagName.
SameTagSiblings(i) ==
  SelectSeq(children(parent[i]), LAMBDA j : tagName(j) = tagName(i))

\* The index loop started at 0 instead of 1.
SiblingIndexOffByOne(i) ==
  Cardinality({j \in Elems : parent[j] = parent[i] /\ j < i /\ tagName(j) = tagName(i)})

\* The index loop: 1 plus the preceding element siblings with the same tagName.
SiblingIndex(i) ==
  1 + Cardinality({j \in Elems : parent[j] = parent[i] /\ j < i /\ tagName(j) = tagName(i)})

\* The segment pushed for one level of the walk.
Segment(i) ==
  IF Len(SameTagSiblings(i)) = 1
  THEN <<ToLowerCase(tagName(i))>>
  ELSE <<ToLowerCase(tagName(i)), "[", IntToString(SiblingIndex(i)), "]">>

\* The while loop of getXPath: current.parentNode.childNodes raises a
\* TypeError when current has no parent node.
RECURSIVE XPathWalk(_, _)
XPathWalk(current, path) ==
  IF ~(current # Null /\ IsElementNode(current)) THEN Return(<<"/">> \o Join(path))
  ELSE IF parentNode(current) = Null THEN Throw
  ELSE LET path2 == <<Segment(current.i)>> \o path
           next  == parentNode(current)
       IN IF next = Document THEN Return(<<"/">> \o Join(path2))
          ELSE XPathWalk(next, path2)

getXPath(element) ==
  IF element = Null THEN Return(<<>>)
  ELSE IF element = Document THEN Return(<<>>)
  ELSE IF element = documentElement THEN Return(<<"/", "html">>)
  ELSE IF element = body THEN Return(<<"/", "html", "/", "body">>)
  ELSE XPathWalk(element, <<>>)

---------------------------------------------------------------------------
(* findElementByXPath *)

IsNameToken(s) == s \notin {"/", "[", "]"} /\ ~IsDigits(s)

\* The location steps of an absolute path "/name", "/name[k]": a sequence of
\* [name, hasPos, pos] (hasPos: a position predicate follows), or a syntax error.
RECURSIVE ParseSteps(_)
ParseSteps(toks) ==
  IF toks = <<>> THEN [ok |-> TRUE, steps |-> <<>>]
  ELSE IF Len(toks) < 2 \/ toks[1] # "/" \/ ~IsNameToken(toks[2])
  THEN [ok |-> FALSE, steps |-> <<>>]
  ELSE IF Len(toks) >= 3 /\ toks[3] = "["
  THEN IF Len(toks) >= 5 /\ IsDigits(toks[4]) /\ toks[5] = "]"
       THEN LET rest == ParseSteps(SubSeq(toks, 6, Len(toks)))
            IN [ok |-> rest.ok,
                steps |-> <<[name |-> toks[2], hasPos |-> TRUE,
                             pos |-> ParseInt(toks[4])]>> \o rest.steps]
       ELSE [ok |-> FALSE, steps |-> <<>>]
  ELSE LET rest == ParseSteps(SubSeq(toks, 3, Len(toks)))
       IN [ok |-> rest.ok,
           steps |-> <<[name |-> toks[2], hasPos |-> FALSE, pos |-> 0]>> \o rest.steps]

\* The name test of a step in an HTML document: an element of the HTML
\* namespace matches on its lower-case local name; an element of another
\* namespace does not match an unprefixed name.
NameTest(name, j) == IsHTMLElement(j) /\ tag[j] = ToLowerCase(name)

\* child::name or child::name[pos] from one context node.
StepFrom(n, step) ==
  LET matching == SelectSeq(children(n), LAMBDA j : NameTest(step.name, j))
  IN IF ~step.hasPos THEN matching
     ELSE IF step.pos \in DOMAIN matching THEN <<matching[step.pos]>>
     ELSE <<>>

RECURSIVE FlatMapStep(_, _)
FlatMapStep(nodes, step) ==
  IF nodes = <<>> THEN <<>>
  ELSE StepFrom(El(nodes[1]), step) \o FlatMapStep(Tail(nodes), step)

RECURSIVE EvalSteps(_, _)
EvalSteps(nodes, steps) ==
  IF steps = <<>> THEN nodes
  ELSE EvalSteps(FlatMapStep(nodes, steps[1]), Tail(steps))

\* document.evaluate(xpath, document, null, FIRST_ORDERED_NODE_TYPE, null):
\* raises on a syntax error, otherwise the matching nodes in document order.
Evaluate(xpath) ==
  IF xpath = <<>> THEN [threw |-> TRUE, nodes |-> <<>>]
  ELSE IF xpath = <<"/">> THEN [threw |-> FALSE, nodes |-> <<Document>>]
  ELSE LET p == ParseSteps(xpath)
       IN IF ~p.ok THEN [threw |-> TRUE, nodes |-> <<>>]
          ELSE LET first == StepFrom(Document, p.steps[1])
                   all   == EvalSteps(first, Tail(p.steps))
               IN [threw |-> FALSE, nodes |-> [k \in DOMAIN all |-> El(all[k])]]

\* findElementByXPath without its try/catch.
findElementByXPathNoCatch(xpath) ==
  LET r == Evaluate(xpath)
  IN IF r.threw THEN [threw |-> TRUE, val |-> Null]
     ELSE [threw |-> FALSE, val |-> IF r.nodes = <<>> THEN Null ELSE r.nodes[1]]

\* findElementByXPath(xpath): singleNodeValue, or null when evaluate raised.
findElementByXPath(xpath) ==
  LET r == Evaluate(xpath)
  IN IF r.threw THEN [threw |-> FALSE, val |-> Null]
     ELSE [threw |-> FALSE, val |-> IF r.nodes = <<>> THEN Null ELSE r.nodes[1]]

---------------------------------------------------------------------------
(* Documents and calls of the path functions *)

\* elementFilter: null (not given), an array of tag names, or a value that
\* is no array.
NoFilter == [given |-> FALSE, isArray |-> TRUE, tags |-> <<>>]

NotAnArray == [given |-> TRUE, isArray |-> FALSE, tags |-> <<>>]

NoOptions == [variant |-> "none", includeShadowDOM |-> FALSE,
              captureOutOfViewport |-> FALSE, elementFilter |-> NoFilter]

NoSnapshot == [elements |-> <<>>, semanticGroups |-> <<>>]

\* Before any call of a tool: no argument, nothing returned, no event.
InitTool ==
  /\ arg = Null
  /\ result = Return(Null)
  /\ events = <<>>

\* Before any call: no call before, no loop, no promise, no timer, no
\* observer and no listener; the clock at 0.
InitCalls ==
  /\ earlier = Null
  /\ batchResults = Null /\ loopIndex = 0 /\ executed = <<>>
  /\ promise = "none" /\ rejection = <<>> /\ timer = "none" /\ observer = "none"
  /\ settleCalls = 0 /\ seenMatch = FALSE /\ appeared = FALSE
  /\ now = 0 /\ timers = {} /\ listener = "none" /\ firstEvent = "none" /\ loaded = FALSE

\* Documents whose form controls play no part.
InitRuntime ==
  /\ InitCalls
  /\ controls = <<>> /\ before = <<>>

PathTags == {"div", "li", "svg"}

PathIds == 1 .. (2 + MaxPathElems)

PathParents(i) ==
  {El(j) : j \in 2 .. (i - 1)} \cup {SR(j) : j \in 2 .. (i - 1)} \cup {Null}

\* Locators handed to findElementByXPath besides those getXPath returned.
TestLocators ==
  { <<>>,
    <<"/">>,
    <<"/", "html", "/", "body", "/", "li">>,
    <<"/", "html", "/", "body", "/", "li", "[", "2", "]">>,
    <<"/", "html", "/", "body", "/", "li", "[">>,
    <<"/", "html", "/", "body", "/", "div", "/", "li">> }

\* The parent maps of documents with n elements: html under the document,
\* body under html, every later element under an earlier element from body
\* on, in the shadow root of one, or detached.
RECURSIVE ParentMaps(_, _)
ParentMaps(n, detached) ==
  IF n <= 2 THEN {<<Document, El(1)>>}
  ELSE {Append(m, p) : m \in ParentMaps(n - 1, detached),
                       p \in IF detached THEN PathParents(n) ELSE PathParents(n) \ {Null}}

\* The tag maps of documents with n elements over a set of tags.
RECURSIVE TagMaps(_, _)
TagMaps(n, tags) ==
  IF n <= 2 THEN {<<"html", "body">>}
  ELSE {Append(m, t) : m \in TagMaps(n - 1, tags), t \in tags}

InitPath ==
  /\ tag \in TagMaps(2 + MaxPathElems, PathTags)
  /\ parent \in ParentMaps(2 + MaxPathElems, TRUE)
  /\ render = [i \in PathIds |-> "shown"]
  /\ text = [i \in PathIds |-> <<>>]
  /\ op = "init"
  /\ xpArg = Null /\ xpRet = Return(<<>>)
  /\ feArg = <<>> /\ feRet = Return(Null)
  /\ options = NoOptions
  /\ snapshot = NoSnapshot
  /\ InitTool
  /\ InitRuntime

\* A caller invokes getXPath(element).
CallGetXPath ==
  /\ op = "init"
  /\ \E e \in {Null, Document} \cup {El(i) : i \in Elems} :
       /\ xpArg' = e
       /\ xpRet' = getXPath(e)
  /\ op' = "getXPath"
  /\ UNCHANGED <<docVars, feArg, feRet, options, snapshot, toolVars>>
  /\ UNCHANGED runtimeVars

\* A caller invokes findElementByXPath on a locator of its own.
CallFindElementByXPath ==
  /\ op = "init"
  /\ \E x \in TestLocators :
       /\ feArg' = x
       /\ feRet' = findElementByXPath(x)
  /\ op' = "findElementByXPath"
  /\ UNCHANGED <<docVars, xpArg, xpRet, options, snapshot, toolVars>>
  /\ UNCHANGED runtimeVars

\* A caller resolves the locator getXPath returned (example.js: round trip).
CallResolve ==
  /\ op = "getXPath"
  /\ ~xpRet.threw
  /\ feArg' = xpRet.val
  /\ feRet' = findElementByXPath(xpRet.val)
  /\ op' = "resolve"
  /\ UNCHANGED <<docVars, xpArg, xpRet, options, snapshot, toolVars>>
  /\ UNCHANGED runtimeVars

NextPath == CallGetXPath \/ CallFindElementByXPath \/ CallResolve

SpecPath == InitPath /\ [][NextPath]_vars

---------------------------------------------------------------------------
(* Styles, boxes and visible text *)

\* window.innerWidth and window.innerHeight
Window == [innerWidth |-> 100, innerHeight |-> 100]

\* The host or parent element of an element in the flat tree (0: none).
FlatParent(i) ==
  IF parent[i].k \in {"element", "shadowroot"} THEN parent[i].i ELSE 0

RECURSIVE UnderDisplayNone(_)
UnderDisplayNone(i) ==
  IF i = 0 THEN FALSE
  ELSE render[i] = "displayNone" \/ UnderDisplayNone(FlatParent(i))

\* getComputedStyle(el) raises on this element (the style query fails).
StyleQueryThrows(i) == render[i] = "throws"

\* getComputedStyle(el): the resolved display, visibility and opacity.
getComputedStyle(i) ==
  [display    |-> IF render[i] = "displayNone" THEN "none" ELSE "block",
   visibility |-> IF render[i] = "hidden" THEN "hidden" ELSE "visible",
   opacity    |-> IF render[i] = "transparent" THEN "0" ELSE "1"]

\* parseFloat on the opacity strings of the model.
ParseFloat(s) == IF s = "0" THEN 0 ELSE 1

\* el.getBoundingClientRect(): an element below display:none has no box.
getBoundingClientRect(i) ==
  IF UnderDisplayNone(i) THEN [x |-> 0, y |-> 0, width |-> 0, height |-> 0]
  ELSE CASE render[i] = "zeroWidth"  -> [x |-> 10, y |-> 10, width |-> 0, height |-> 20]
         [] render[i] = "zeroHeight" -> [x |-> 10, y |-> 10, width |-> 20, height |-> 0]
         [] render[i] = "offscreen"  -> [x |-> 0 - 500, y |-> 10, width |-> 20, height |-> 20]
         [] OTHER                    -> [x |-> 10, y |-> 10, width |-> 20, height |-> 20]

\* inViewport({x, y, width, height}) of the library.
inViewport(rect) ==
  /\ rect.x + rect.width > 0
  /\ rect.y + rect.height > 0
  /\ rect.x < Window.innerWidth
  /\ rect.y < Window.innerHeight

\* The inline viewport test of the core variant (top, left, bottom, right).
inViewportCore(rect) ==
  /\ rect.y < Window.innerHeight
  /\ rect.x < Window.innerWidth
  /\ rect.y + rect.height > 0
  /\ rect.x + rect.width > 0

IsSpace(c) == c = " "

\* String.prototype.replace(/\s+/g, ' ')
RECURSIVE CollapseSpaces(_)
CollapseSpaces(s) ==
  IF s = <<>> THEN <<>>
  ELSE IF IsSpace(s[1])
  THEN IF Len(s) >= 2 /\ IsSpace(s[2]) THEN CollapseSpaces(Tail(s))
       ELSE <<" ">> \o CollapseSpaces(Tail(s))
  ELSE <<s[1]>> \o CollapseSpaces(Tail(s))

\* String.prototype.trim
RECURSIVE TrimLeft(_)
TrimLeft(s) == IF s # <<>> /\ IsSpace(s[1]) THEN TrimLeft(Tail(s)) ELSE s

RECURSIVE TrimRight(_)
TrimRight(s) ==
  IF s # <<>> /\ IsSpace(s[Len(s)]) THEN TrimRight(SubSeq(s, 1, Len(s) - 1)) ELSE s

Trim(s) == TrimRight(TrimLeft(s))

\* String.prototype.slice(0, n)
Slice(s, n) == IF Len(s) <= n THEN s ELSE SubSeq(s, 1, n)

\* The default of textTruncateLength.
TextTruncateLength == 60

Normalize(s) == Slice(Trim(CollapseSpaces(s)), TextTruncateLength)

\* getVisibleText(node) of the library: the text nodes below an element,
\* skipping every element whose own style hides it or whose style query
\* raises.  The text node of an element precedes its child elements.
RECURSIVE getVisibleText(_)
RECURSIVE VisibleTextOfAll(_)
getVisibleText(i) ==
  LET st == getComputedStyle(i)
  IN IF StyleQueryThrows(i) THEN <<>>
     ELSE IF st.display = "none" \/ st.visibility = "hidden" \/ ParseFloat(st.opacity) = 0
     THEN <<>>
     ELSE text[i] \o VisibleTextOfAll(children(El(i)))

VisibleTextOfAll(kids) ==
  IF kids = <<>> THEN <<>>
  ELSE getVisibleText(kids[1]) \o VisibleTextOfAll(Tail(kids))

\* The text loop of the core variant: the element's own text nodes only.
OwnText(i) == text[i]

---------------------------------------------------------------------------
(* Roles and semantic groups *)

\* An attribute the element does not carry, and the role null; both are
\* falsy and equal to no role name.
NoAttribute == <<>>

NoRole == ""

\* String.prototype.includes on character sequences.
Includes(s, sub) ==
  \E k \in 1 .. (Len(s) - Len(sub) + 1) : SubSeq(s, k, k + Len(sub) - 1) = sub

\* getElementRole(element), from the role attribute, the lower-case tag name
\* and the lower-case type of an input.
getElementRole(roleAttr, tagLower, type) ==
  IF roleAttr # NoRole THEN roleAttr
  ELSE CASE tagLower = "a"        -> "link"
         [] tagLower = "button"   -> "button"
         [] tagLower = "input"    -> (CASE type = "checkbox" -> "checkbox"
                                        [] type = "radio"    -> "radio"
                                        [] type = "submit"   -> "button"
                                        [] type = "button"   -> "button"
                                        [] OTHER             -> "textbox")
         [] tagLower = "select"   -> "combobox"
         [] tagLower = "textarea" -> "textbox"
         [] tagLower = "img"      -> "img"
         [] tagLower \in {"h1", "h2", "h3", "h4", "h5", "h6"} -> "heading"
         [] tagLower = "nav"      -> "navigation"
         [] tagLower = "main"     -> "main"
         [] tagLower = "form"     -> "form"
         [] OTHER                 -> NoRole

\* The keys of the groups object.
GroupNames == {"navigation", "interaction", "content", "media", "forms"}

NoGroups == [g \in GroupNames |-> <<>>]

\* The if / else-if chain with the interaction test ahead of the navigation test.
GroupOfInteractionFirst(el) ==
  IF el.tag = "button" \/ el.tag = "a" \/ el.role = "button" \/ el.role = "link"
  THEN "interaction"
  ELSE IF \/ el.role = "navigation" \/ el.tag = "nav"
          \/ (el.tag = "ul" /\ Includes(el.class, <<"n", "a", "v">>))
  THEN "navigation"
  ELSE IF el.tag \in {"input", "select", "textarea", "form"} \/ el.role = "form"
  THEN "forms"
  ELSE IF el.tag = "img" \/ el.tag = "video" \/ el.tag = "audio" \/ el.role = "img"
  THEN "media"
  ELSE IF /\ el.tag \in {"h1", "h2", "h3", "h4", "h5", "h6", "p", "span", "div"}
          /\ el.text # <<>> /\ Len(Trim(el.text)) > 0
  THEN "content"
  ELSE "none"

\* The if / else-if chain of the forEach callback: the group a record is
\* pushed to, "none" when no branch is taken.
GroupOf(el) ==
  IF \/ el.role = "navigation" \/ el.tag = "nav"
     \/ (el.tag = "ul" /\ Includes(el.class, <<"n", "a", "v">>))
  THEN "navigation"
  ELSE IF el.tag = "button" \/ el.tag = "a" \/ el.role = "button" \/ el.role = "link"
  THEN "interaction"
  ELSE IF el.tag \in {"input", "select", "textarea", "form"} \/ el.role = "form"
  THEN "forms"
  ELSE IF el.tag = "img" \/ el.tag = "video" \/ el.tag = "audio" \/ el.role = "img"
  THEN "media"
  ELSE IF /\ el.tag \in {"h1", "h2", "h3", "h4", "h5", "h6", "p", "span", "div"}
          /\ el.text # <<>> /\ Len(Trim(el.text)) > 0
  THEN "content"
  ELSE "none"

\* elements.forEach: each record is pushed to the group of its branch.
RECURSIVE ForEachGroup(_, _)
ForEachGroup(elements, groups) ==
  IF elements = <<>> THEN groups
  ELSE LET el == elements[1]
           g  == GroupOf(el)
       IN ForEachGroup(Tail(elements),
                       IF g = "none" THEN groups
                       ELSE [groups EXCEPT ![g] = Append(@, el)])

groupElementsBySemantic(elements) == ForEachGroup(elements, NoGroups)

---------------------------------------------------------------------------
(* takeSnapshot *)

\* A results container that keeps the records of the call before.
NewResultsKept(previous) == previous

\* const results = []: every call starts from an empty container.
NewResults(previous) == <<>>

\* The default RELEVANT set.
DefaultRelevant ==
  {"BUTTON", "A", "INPUT", "LABEL", "SELECT", "TEXTAREA", "IMG", "SVG",
   "DIV", "SPAN", "H1", "H2", "H3", "H4", "H5", "H6", "P"}

\* RELEVANT: the upper-cased elementFilter when one is given.
Relevant(o) ==
  IF o.elementFilter.given
  THEN {ToUpperCase(o.elementFilter.tags[k]) : k \in DOMAIN o.elementFilter.tags}
  ELSE DefaultRelevant

\* The inclusion test: RELEVANT.has(el.tagName) || visibleText.length > 0
Included(i, o, visibleText) ==
  tagName(i) \in Relevant(o) \/ Len(visibleText) > 0

\* The box test of scan: rect.width <= 0 || rect.height <= 0
EmptyBox(rect) == rect.width <= 0 \/ rect.height <= 0

\* The style test of scan without its opacity clause.
HiddenStyleNoOpacity(st) == st.display = "none" \/ st.visibility = "hidden"

\* The style test of scan.
HiddenStyle(st) ==
  st.display = "none" \/ st.visibility = "hidden" \/ ParseFloat(st.opacity) = 0

\* The viewport test of scan: !captureOutOfViewport && !isInViewport
SkipOutOfViewport(o, isInViewport) == ~o.captureOutOfViewport /\ ~isInViewport

\* A catch block that returns from scan instead of falling through to the
\* children loop.
Rethrown == [returned |-> TRUE, records |-> <<>>]

\* The catch block of scan: the error is logged, nothing is pushed and scan
\* goes on to the children loop.
Caught == [returned |-> FALSE, records |-> <<>>]

\* The try block of scan for one element.  returned: scan returned before
\* reaching the children loop; records: the element snapshot pushed, if any
\* (none when the style query or getXPath raised inside the try block).  el
\* is the number of the element that produced the record.  The elements of
\* the model carry no role, type or class attribute.
Inspect(i, o) ==
  LET st           == getComputedStyle(i)
      rect         == getBoundingClientRect(i)
      isInViewport == IF o.variant = "core" THEN inViewportCore(rect) ELSE inViewport(rect)
      visibleText  == Normalize(IF o.variant = "core" THEN OwnText(i) ELSE getVisibleText(i))
  IN IF StyleQueryThrows(i) THEN Caught
     ELSE IF HiddenStyle(st) THEN [returned |-> TRUE, records |-> <<>>]
     ELSE IF EmptyBox(rect) THEN [returned |-> TRUE, records |-> <<>>]
     ELSE IF SkipOutOfViewport(o, isInViewport) THEN [returned |-> TRUE, records |-> <<>>]
     ELSE IF Included(i, o, visibleText)
     THEN IF getXPath(El(i)).threw THEN Caught
          ELSE
          [returned |-> FALSE,
           records  |-> <<[el         |-> i,
                           tag        |-> ToLowerCase(tagName(i)),
                           xpath      |-> getXPath(El(i)).val,
                           text       |-> visibleText,
                           inViewport |-> isInViewport,
                           class      |-> NoAttribute,
                           role       |-> IF o.variant = "core" THEN NoRole
                                          ELSE getElementRole(NoRole, ToLowerCase(tagName(i)),
                                                              NoRole)]>>]
     ELSE [returned |-> FALSE, records |-> <<>>]

\* scan(el) of the library: the shadow root first, then the element itself,
\* then its children.
RECURSIVE scan(_, _)
RECURSIVE ScanAll(_, _)
scan(n, o) ==
  LET shadowPart == IF o.includeShadowDOM /\ shadowRoot(n) # Null
                    THEN scan(shadowRoot(n), o) ELSE <<>>
  IN IF IsElementNode(n)
     THEN LET r == Inspect(n.i, o)
          IN IF r.returned THEN shadowPart
             ELSE shadowPart \o r.records \o ScanAll(children(n), o)
     ELSE shadowPart \o ScanAll(children(n), o)

ScanAll(kids, o) ==
  IF kids = <<>> THEN <<>>
  ELSE scan(El(kids[1]), o) \o ScanAll(Tail(kids), o)

\* scan(el) of the core variant: it never looks at el.shadowRoot.
RECURSIVE scanCore(_, _)
RECURSIVE ScanAllCore(_, _)
scanCore(n, o) ==
  IF IsElementNode(n)
  THEN LET r == Inspect(n.i, o)
       IN IF r.returned THEN <<>>
          ELSE r.records \o ScanAllCore(children(n), o)
  ELSE IF (o.includeShadowDOM /\ n.k = "shadowroot") \/ n.k = "document"
  THEN ScanAllCore(children(n), o)
  ELSE <<>>

ScanAllCore(kids, o) ==
  IF kids = <<>> THEN <<>>
  ELSE scanCore(El(kids[1]), o) \o ScanAllCore(Tail(kids), o)

\* takeSnapshot(options): keyElements and semanticGroups of the library,
\* elements of the core (which has no semantic groups).  previous: the
\* records the call before pushed to its results container.
takeSnapshotAfter(o, previous) ==
  LET results == NewResults(previous)
                   \o (IF o.variant = "core" THEN scanCore(body, o) ELSE scan(body, o))
  IN [elements       |-> results,
      semanticGroups |-> IF o.variant = "core" THEN NoGroups
                         ELSE groupElementsBySemantic(results)]

\* The first call after the module is loaded.
takeSnapshot(o) == takeSnapshotAfter(o, <<>>)

\* The call as its caller sees it: elementFilter.map raises a TypeError for
\* a truthy elementFilter that is not an array, before the scan starts.
takeSnapshotCall(o, previous) ==
  IF o.elementFilter.given /\ ~o.elementFilter.isArray THEN Throw
  ELSE Return(takeSnapshotAfter(o, previous))

---------------------------------------------------------------------------
(* Documents and calls of takeSnapshot *)

\* The kinds of element of the documents of SpecSnap: tag, rendering, own
\* text.  An li with only white space is an element outside the default
\* relevant set without visible text.  The light children of a shadow host
\* keep their boxes: they are rendered through a slot of the shadow tree.
SnapKinds ==
  { [tag |-> "div", render |-> "shown",       text |-> <<>>],
    [tag |-> "li",  render |-> "shown",       text |-> <<"a">>],
    [tag |-> "li",  render |-> "shown",       text |-> <<" ">>],
    [tag |-> "div", render |-> "displayNone", text |-> <<"a">>],
    [tag |-> "div", render |-> "hidden",      text |-> <<"a">>],
    [tag |-> "div", render |-> "transparent", text |-> <<"a">>],
    [tag |-> "div", render |-> "zeroWidth",   text |-> <<"a">>],
    [tag |-> "li",  render |-> "zeroHeight",  text |-> <<"a">>],
    [tag |-> "div", render |-> "offscreen",   text |-> <<"a">>] }

BodyKind == [tag |-> "body", render |-> "shown", text |-> <<>>]

HtmlKind == [tag |-> "html", render |-> "shown", text |-> <<>>]

RECURSIVE KindMaps(_)
KindMaps(n) ==
  IF n <= 2 THEN {<<HtmlKind, BodyKind>>}
  ELSE {Append(m, k) : m \in KindMaps(n - 1), k \in SnapKinds}

SnapIds == 1 .. (2 + MaxSnapElems)

SnapOptions ==
  [variant : {"library", "core"},
   includeShadowDOM : BOOLEAN,
   captureOutOfViewport : BOOLEAN,
   elementFilter : {NoFilter, [given |-> TRUE, isArray |-> TRUE, tags |-> <<"Li">>]}]

InitSnap ==
  /\ \E kinds \in KindMaps(2 + MaxSnapElems) :
       /\ tag = [i \in SnapIds |-> kinds[i].tag]
       /\ render = [i \in SnapIds |-> kinds[i].render]
       /\ text = [i \in SnapIds |-> kinds[i].text]
  /\ parent \in ParentMaps(2 + MaxSnapElems, FALSE)
  /\ op = "init"
  /\ xpArg = Null /\ xpRet = Return(<<>>)
  /\ feArg = <<>> /\ feRet = Return(Null)
  /\ options = NoOptions
  /\ snapshot = NoSnapshot
  /\ InitTool
  /\ InitRuntime

\* A caller invokes takeSnapshot(options).
CallTakeSnapshot ==
  /\ op = "init"
  /\ \E o \in SnapOptions :
       /\ options' = o
       /\ snapshot' = takeSnapshot(o)
  /\ op' = "takeSnapshot"
  /\ UNCHANGED <<docVars, xpArg, xpRet, feArg, feRet, toolVars>>
  /\ UNCHANGED runtimeVars

NextSnap == CallTakeSnapshot

SpecSnap == InitSnap /\ [][NextSnap]_vars

---------------------------------------------------------------------------
(* Snapshots with the default options, repeated and failing calls *)

\* Number of elements besides html and body in the documents of SpecScene.
MaxSceneElems == 3

\* The kinds of element of the documents of SpecScene: a button with the
\* text Go, an empty div, a p with the text Hi, and a div whose style query
\* raises.
SceneKinds ==
  { [tag |-> "button", render |-> "shown",  text |-> <<"G", "o">>],
    [tag |-> "div",    render |-> "shown",  text |-> <<>>],
    [tag |-> "p",      render |-> "shown",  text |-> <<"H", "i">>],
    [tag |-> "div",    render |-> "throws", text |-> <<"a">>] }

\* The kind maps and the parent maps (light tree only) of documents with n
\* elements.
RECURSIVE SceneKindMaps(_)
SceneKindMaps(n) ==
  IF n <= 2 THEN {<<HtmlKind, BodyKind>>}
  ELSE {Append(m, k) : m \in SceneKindMaps(n - 1), k \in SceneKinds}

RECURSIVE LightParentMaps(_)
LightParentMaps(n) ==
  IF n <= 2 THEN {<<Document, El(1)>>}
  ELSE {Append(m, El(j)) : m \in LightParentMaps(n - 1), j \in 2 .. (n - 1)}

\* The defaults of the options of takeSnapshot.
DefaultOptions ==
  [variant |-> "library", includeShadowDOM |-> TRUE,
   captureOutOfViewport |-> TRUE, elementFilter |-> NoFilter]

SceneOptions ==
  [variant : {"library", "core"},
   includeShadowDOM : {TRUE},
   captureOutOfViewport : {TRUE},
   elementFilter : {NoFilter, NotAnArray}]

InitScene ==
  /\ \E n \in 3 .. (2 + MaxSceneElems) :
       /\ \E kinds \in SceneKindMaps(n) :
            /\ tag = [i \in 1 .. n |-> kinds[i].tag]
            /\ render = [i \in 1 .. n |-> kinds[i].render]
            /\ text = [i \in 1 .. n |-> kinds[i].text]
       /\ parent \in LightParentMaps(n)
  /\ op = "init"
  /\ xpArg = Null /\ xpRet = Return(<<>>)
  /\ feArg = <<>> /\ feRet = Return(Null)
  /\ options = NoOptions
  /\ snapshot = NoSnapshot
  /\ InitTool
  /\ InitRuntime

\* A caller invokes takeSnapshot(options) for the first time.
CallTakeSnapshotFirst ==
  /\ op = "init"
  /\ \E o \in SceneOptions :
       /\ options' = o
       /\ result' = takeSnapshotCall(o, <<>>)
       /\ snapshot' = IF takeSnapshotCall(o, <<>>).threw THEN NoSnapshot
                      ELSE takeSnapshotCall(o, <<>>).val
  /\ op' = "takeSnapshot"
  /\ UNCHANGED <<docVars, xpArg, xpRet, feArg, feRet, arg, events>>
  /\ UNCHANGED runtimeVars

\* The caller invokes takeSnapshot again with the same options.
CallTakeSnapshotAgain ==
  /\ op = "takeSnapshot"
  /\ ~result.threw
  /\ result' = takeSnapshotCall(options, snapshot.elements)
  /\ op' = "takeSnapshotAgain"
  /\ UNCHANGED <<docVars, xpArg, xpRet, feArg, feRet, options, snapshot, arg, events>>
  /\ UNCHANGED runtimeVars

NextScene == CallTakeSnapshotFirst \/ CallTakeSnapshotAgain

SpecScene == InitScene /\ [][NextScene]_vars

---------------------------------------------------------------------------
(* isElementVisible *)

\* isElementVisible without the test of the box.
isElementVisibleNoBoxTest(n) ==
  IF n = Null THEN FALSE
  ELSE IF ~IsElementNode(n) \/ StyleQueryThrows(n.i) THEN TRUE
  ELSE LET style == getComputedStyle(n.i)
       IN ~(style.display = "none" \/ style.visibility = "hidden" \/ style.opacity = "0")

\* isElementVisible(element) of the library: false for no element; inside
\* the try block false for a hidden style or a box of zero width or height
\* and true otherwise; true from the catch block.  getComputedStyle raises
\* for a node that is no element.
isElementVisible(n) ==
  IF n = Null THEN FALSE
  ELSE IF ~IsElementNode(n) \/ StyleQueryThrows(n.i) THEN TRUE
  ELSE LET style == getComputedStyle(n.i)
           rect  == getBoundingClientRect(n.i)
       IN IF style.display = "none" \/ style.visibility = "hidden" \/ style.opacity = "0"
          THEN FALSE
          ELSE IF rect.width = 0 \/ rect.height = 0 THEN FALSE
          ELSE TRUE

\* isElementVisible(element) of tools/utils.js: the same statements.
isElementVisibleUtils(n) ==
  IF n = Null THEN FALSE
  ELSE IF ~IsElementNode(n) \/ StyleQueryThrows(n.i) THEN TRUE
  ELSE LET style == getComputedStyle(n.i)
           rect  == getBoundingClientRect(n.i)
       IN IF style.display = "none" \/ style.visibility = "hidden" \/ style.opacity = "0"
          THEN FALSE
          ELSE IF rect.width = 0 \/ rect.height = 0 THEN FALSE
          ELSE TRUE

\* Number of elements besides html and body in the documents of SpecVisible.
MaxVisibleElems == 2

\* The renderings of the elements of SpecVisible.
VisibleRenders ==
  {"shown", "displayNone", "hidden", "transparent", "zeroWidth", "zeroHeight",
   "offscreen", "throws"}

RECURSIVE RenderMaps(_)
RenderMaps(n) ==
  IF n <= 2 THEN {<<"shown", "shown">>}
  ELSE {Append(m, r) : m \in RenderMaps(n - 1), r \in VisibleRenders}

InitVisible ==
  /\ tag = [i \in 1 .. (2 + MaxVisibleElems) |-> IF i = 1 THEN "html" ELSE IF i = 2 THEN "body" ELSE "div"]
  /\ parent \in LightParentMaps(2 + MaxVisibleElems)
  /\ render \in RenderMaps(2 + MaxVisibleElems)
  /\ text = [i \in 1 .. (2 + MaxVisibleElems) |-> <<>>]
  /\ op = "init"
  /\ xpArg = Null /\ xpRet = Return(<<>>)
  /\ feArg = <<>> /\ feRet = Return(Null)
  /\ options = NoOptions
  /\ snapshot = NoSnapshot
  /\ InitTool
  /\ InitRuntime

\* A caller invokes isElementVisible of the library.
CallIsElementVisible ==
  /\ op = "init"
  /\ \E n \in {Null, Document} \cup {El(i) : i \in Elems} :
       /\ arg' = n
       /\ result' = Return(isElementVisible(n))
  /\ op' = "isElementVisible"
  /\ UNCHANGED <<docVars, xpArg, xpRet, feArg, feRet, options, snapshot, events>>
  /\ UNCHANGED runtimeVars

\* A tool invokes isElementVisible of tools/utils.js.
CallIsElementVisibleUtils ==
  /\ op = "init"
  /\ \E n \in {Null, Document} \cup {El(i) : i \in Elems} :
       /\ arg' = n
       /\ result' = Return(isElementVisibleUtils(n))
  /\ op' = "utils.isElementVisible"
  /\ UNCHANGED <<docVars, xpArg, xpRet, feArg, feRet, options, snapshot, events>>
  /\ UNCHANGED runtimeVars

NextVisible == CallIsElementVisible \/ CallIsElementVisibleUtils

SpecVisible == InitVisible /\ [][NextVisible]_vars

---------------------------------------------------------------------------
(* findElement and the Perform tool *)

\* The elements below a node of the document tree, in document order.
RECURSIVE Descendants(_)
RECURSIVE DescendantsOfAll(_)
Descendants(n) == DescendantsOfAll(children(n))

DescendantsOfAll(kids) ==
  IF kids = <<>> THEN <<>>
  ELSE <<kids[1]>> \o Descendants(El(kids[1])) \o DescendantsOfAll(Tail(kids))

\* The selectors of the model are type selectors: one name.  A target with
\* a "/" or a bracket in it, and the empty string, are no selectors.
IsSelector(target) == Len(target) = 1 /\ IsNameToken(target[1])

\* document.querySelector(target): raises a SyntaxError for a target that is
\* no selector, otherwise the first matching element in document order or
\* null.
querySelector(target) ==
  IF ~IsSelector(target) THEN Throw
  ELSE LET matching == SelectSeq(Descendants(Document),
                                 LAMBDA j : tag[j] = ToLowerCase(target[1]))
       IN Return(IF matching = <<>> THEN Null ELSE El(matching[1]))

\* findElement(target) of tools/utils.js: querySelector outside the try
\* block, findElementByXPath inside it when the selector matched nothing.
findElement(target) ==
  LET q == querySelector(target)
  IN IF q.threw THEN Throw
     ELSE IF q.val # Null THEN Return(q.val)
     ELSE Return(findElementByXPath(target).val)

\* createSuccessResult and createErrorResult, with the events the call
\* dispatched on the way.
createSuccessResult(action, dispatched) ==
  [val |-> [success |-> TRUE, action |-> action, error |-> "undefined"],
   events |-> dispatched]

createErrorResult(message, dispatched) ==
  [val |-> [success |-> FALSE, action |-> "undefined", error |-> message],
   events |-> dispatched]

Event(type, target) == [type |-> type, target |-> target]

\* Perform.click(target) with the default options.
PerformClick(target) ==
  LET f == findElement(target)
  IN IF f.threw THEN createErrorResult("Click operation failed", <<>>)
     ELSE IF f.val = Null THEN createErrorResult("Target element not found", <<>>)
     ELSE createSuccessResult("click", <<Event("click", f.val)>>)

\* Perform.type(target, text) with the default options (clear, no delay).
PerformType(target) ==
  LET f == findElement(target)
  IN IF f.threw THEN createErrorResult("Type operation failed", <<>>)
     ELSE IF f.val = Null THEN createErrorResult("Target element not found", <<>>)
     ELSE IF tag[f.val.i] \notin {"input", "textarea", "select"}
     THEN createErrorResult("Target is not a valid input field", <<>>)
     ELSE createSuccessResult("type", <<Event("input", f.val), Event("change", f.val),
                                        Event("input", f.val), Event("change", f.val)>>)

\* The option values of every select element of the model.
SelectOptions == {"a", "b"}

\* Perform.select(target, value) with the default options: the change event
\* is dispatched whether or not an option matched.
PerformSelect(target, value) ==
  LET f == findElement(target)
  IN IF f.threw THEN createErrorResult("Select operation failed", <<>>)
     ELSE IF f.val = Null THEN createErrorResult("Target element not found", <<>>)
     ELSE IF tag[f.val.i] # "select"
     THEN createErrorResult("Target is not a select element", <<>>)
     ELSE IF value \in SelectOptions
     THEN createSuccessResult("select", <<Event("change", f.val)>>)
     ELSE createErrorResult("No matching options found", <<Event("change", f.val)>>)

\* Perform.hover(target) with the default options (no duration).
PerformHover(target) ==
  LET f == findElement(target)
  IN IF f.threw THEN createErrorResult("Hover operation failed", <<>>)
     ELSE IF f.val = Null THEN createErrorResult("Target element not found", <<>>)
     ELSE createSuccessResult("hover", <<Event("mouseenter", f.val),
                                         Event("mouseover", f.val)>>)

\* Perform.scroll({ target }).
PerformScroll(target) ==
  LET f == findElement(target)
  IN IF target = <<>>
     THEN createErrorResult("Invalid scroll options: must specify target or x/y position", <<>>)
     ELSE IF f.threw THEN createErrorResult("Scroll operation failed", <<>>)
     ELSE IF f.val = Null THEN createErrorResult("Target element not found", <<>>)
     ELSE createSuccessResult("scrollToElement", <<>>)

\* Number of elements besides html and body in the documents of SpecPerform.
MaxPerformElems == 2

PerformTags == {"button", "input", "select"}

\* The targets handed to the tools: type selectors, the empty string, and
\* the locators getXPath returns for the elements of the document.
PerformTargets ==
  {<<"button">>, <<"input">>, <<"li">>, <<>>}
    \cup {getXPath(El(i)).val : i \in {j \in Elems : j > 2}}

InitPerform ==
  /\ tag \in TagMaps(2 + MaxPerformElems, PerformTags)
  /\ parent \in LightParentMaps(2 + MaxPerformElems)
  /\ render = [i \in 1 .. (2 + MaxPerformElems) |-> "shown"]
  /\ text = [i \in 1 .. (2 + MaxPerformElems) |-> <<>>]
  /\ op = "init"
  /\ xpArg = Null /\ xpRet = Return(<<>>)
  /\ feArg = <<>> /\ feRet = Return(Null)
  /\ options = NoOptions
  /\ snapshot = NoSnapshot
  /\ InitTool
  /\ InitRuntime

\* A tool invokes findElement(target).
CallFindElement ==
  /\ op = "init"
  /\ \E t \in PerformTargets :
       /\ arg' = t
       /\ result' = findElement(t)
  /\ op' = "findElement"
  /\ UNCHANGED <<docVars, xpArg, xpRet, feArg, feRet, options, snapshot, events>>
  /\ UNCHANGED runtimeVars

\* A caller invokes Perform.click(target).
CallPerformClick ==
  /\ op = "init"
  /\ \E t \in PerformTargets :
       /\ arg' = t
       /\ result' = Return(PerformClick(t).val)
       /\ events' = PerformClick(t).events
  /\ op' = "Perform.click"
  /\ UNCHANGED <<docVars, xpArg, xpRet, feArg, feRet, options, snapshot>>
  /\ UNCHANGED runtimeVars

\* A caller invokes Perform.type(target, text).
CallPerformType ==
  /\ op = "init"
  /\ \E t \in PerformTargets :
       /\ arg' = t
       /\ result' = Return(PerformType(t).val)
       /\ events' = PerformType(t).events
  /\ op' = "Perform.type"
  /\ UNCHANGED <<docVars, xpArg, xpRet, feArg, feRet, options, snapshot>>
  /\ UNCHANGED runtimeVars

\* A caller invokes Perform.select(target, value).
CallPerformSelect ==
  /\ op = "init"
  /\ \E t \in PerformTargets, v \in {"a", "z"} :
       /\ arg' = t
       /\ result' = Return(PerformSelect(t, v).val)
       /\ events' = PerformSelect(t, v).events
  /\ op' = "Perform.select"
  /\ UNCHANGED <<docVars, xpArg, xpRet, feArg, feRet, options, snapshot>>
  /\ UNCHANGED runtimeVars

\* A caller invokes Perform.hover(target).
CallPerformHover ==
  /\ op = "init"
  /\ \E t \in PerformTargets :
       /\ arg' = t
       /\ result' = Return(PerformHover(t).val)
       /\ events' = PerformHover(t).events
  /\ op' = "Perform.hover"
  /\ UNCHANGED <<docVars, xpArg, xpRet, feArg, feRet, options, snapshot>>
  /\ UNCHANGED runtimeVars

\* A caller invokes Perform.scroll({ target }).
CallPerformScroll ==
  /\ op = "init"
  /\ \E t \in PerformTargets :
       /\ arg' = t
       /\ result' = Return(PerformScroll(t).val)
       /\ events' = PerformScroll(t).events
  /\ op' = "Perform.scroll"
  /\ UNCHANGED <<docVars, xpArg, xpRet, feArg, feRet, options, snapshot>>
  /\ UNCHANGED runtimeVars

NextPerform ==
  \/ CallFindElement
  \/ CallPerformClick
  \/ CallPerformType
  \/ CallPerformSelect
  \/ CallPerformHover
  \/ CallPerformScroll

SpecPerform == InitPerform /\ [][NextPerform]_vars

---------------------------------------------------------------------------
(* AgentTools: commands of an agent between page mutations *)

\* A result object of the interaction and navigation tools; a field the
\* object does not have reads "undefined".
ToolResult(success, action, error, dispatched) ==
  [val |-> [success |-> success, action |-> action, error |-> error],
   events |-> dispatched]

\* The not-found return of the interaction tools.
NotFound == ToolResult(FALSE, "undefined", "Element not found", <<>>)

\* InteractionTools.clickElement(xpath): element.tagName is undefined on a
\* node that is no element, and the TypeError is caught.
clickElement(xpath) ==
  LET element == findElementByXPath(xpath).val
  IN IF element = Null THEN NotFound
     ELSE IF ~IsElementNode(element) THEN ToolResult(FALSE, "click", "TypeError", <<>>)
     ELSE ToolResult(TRUE, "click", "undefined", <<Event("click", element)>>)

\* InteractionTools.fillElement(xpath, value): on a select the option with
\* that value is chosen, and an Error is raised and caught, before any
\* event, when there is none.
fillElement(xpath, value) ==
  LET element == findElementByXPath(xpath).val
  IN IF element = Null THEN NotFound
     ELSE IF ~IsElementNode(element) THEN ToolResult(FALSE, "fill", "TypeError", <<>>)
     ELSE IF tag[element.i] = "select" /\ value \notin SelectOptions
     THEN ToolResult(FALSE, "fill", "Could not find option", <<>>)
     ELSE ToolResult(TRUE, "fill", "undefined",
                     <<Event("input", element), Event("change", element)>>)

\* InteractionTools.scrollToElement(xpath): a node that is no element has
\* no scrollIntoView.
scrollToElement(xpath) ==
  LET element == findElementByXPath(xpath).val
  IN IF element = Null THEN NotFound
     ELSE IF ~IsElementNode(element) THEN ToolResult(FALSE, "scroll", "TypeError", <<>>)
     ELSE ToolResult(TRUE, "scroll", "undefined", <<>>)

\* InteractionTools.hoverElement(xpath): the two mouse events are dispatched
\* before element.tagName is read for the result.
hoverElement(xpath) ==
  LET element    == findElementByXPath(xpath).val
      dispatched == <<Event("mouseenter", element), Event("mouseover", element)>>
  IN IF element = Null THEN NotFound
     ELSE IF ~IsElementNode(element) THEN ToolResult(FALSE, "hover", "TypeError", dispatched)
     ELSE ToolResult(TRUE, "hover", "undefined", dispatched)

\* The strings new URL(url) accepts.
ValidURLs == {"https://example.test/"}

\* NavigationTools.navigateTo(url)
navigateTo(url) ==
  IF url \in ValidURLs THEN ToolResult(TRUE, "navigate", "undefined", <<>>)
  ELSE ToolResult(FALSE, "navigate", "Invalid URL", <<>>)

\* NavigationTools.goBack() with window.history.length = historyLength
goBack(historyLength) ==
  IF ~(historyLength > 1)
  THEN ToolResult(FALSE, "goBack", "Cannot go back - no previous page in history", <<>>)
  ELSE ToolResult(TRUE, "goBack", "undefined", <<>>)

\* A command object; a field that is not given reads "" (falsy).
Cmd(a, x, v, u) == [action |-> a, xpath |-> x, value |-> v, url |-> u]

\* AgentTools.executeCommand(command): the guard, then the switch.
executeCommand(command, historyLength) ==
  LET r == IF command = Null \/ command.action = ""
           THEN ToolResult(FALSE, "undefined", "Invalid command: missing action", <<>>)
           ELSE CASE command.action = "click"    -> clickElement(command.xpath)
                  [] command.action = "fill"     -> fillElement(command.xpath, command.value)
                  [] command.action = "navigate" -> navigateTo(command.url)
                  [] command.action = "scroll"   -> scrollToElement(command.xpath)
                  [] command.action = "hover"    -> hoverElement(command.xpath)
                  [] command.action = "goBack"   -> goBack(historyLength)
                  [] command.action = "analyze"  -> ToolResult(TRUE, "analyze", "undefined", <<>>)
                  [] OTHER -> ToolResult(FALSE, "undefined", "Unknown command action", <<>>)
  IN [threw |-> FALSE, val |-> r.val, events |-> r.events]

\* Number of elements besides html and body in the documents of SpecAgent.
MaxAgentElems == 2

\* The tag maps of SpecAgent: the first element after body is a button or a
\* select, the others are buttons.
AgentTagMaps(n) ==
  {[i \in 1 .. n |-> CASE i = 1 -> "html" [] i = 2 -> "body" [] i = 3 -> t [] OTHER -> "button"] :
     t \in {"button", "select"}}

\* The locators an agent sends: those of the records of its last snapshot,
\* the root, a locator matching nothing and a malformed one.
AgentLocators ==
  {snapshot.elements[k].xpath : k \in DOMAIN snapshot.elements}
    \cup {<<"/">>, <<"/", "html", "/", "body", "/", "li">>, <<"/", "html", "[">>}

AgentCommands ==
  {Null, Cmd("", <<>>, "", ""), Cmd("dance", <<>>, "", ""),
   Cmd("analyze", <<>>, "", ""), Cmd("goBack", <<>>, "", ""),
   Cmd("navigate", <<>>, "", "https://example.test/"), Cmd("navigate", <<>>, "", "")}
    \cup {Cmd(a, x, "", "") : a \in {"click", "scroll", "hover"}, x \in AgentLocators}
    \cup {Cmd("fill", x, v, "") : x \in AgentLocators, v \in {"a", "z"}}

InitAgent ==
  /\ tag \in AgentTagMaps(2 + MaxAgentElems)
  /\ parent \in LightParentMaps(2 + MaxAgentElems)
  /\ render = [i \in 1 .. (2 + MaxAgentElems) |-> "shown"]
  /\ text = [i \in 1 .. (2 + MaxAgentElems) |-> <<>>]
  /\ op = "init"
  /\ xpArg = Null /\ xpRet = Return(<<>>)
  /\ feArg = <<>> /\ feRet = Return(Null)
  /\ options = NoOptions
  /\ snapshot = NoSnapshot
  /\ InitTool
  /\ InitRuntime

\* The agent hands a command to AgentTools.executeCommand; analyze takes the
\* next snapshot.
ExecuteCommand ==
  /\ \E c \in AgentCommands, historyLength \in {1, 2} :
       /\ arg' = c
       /\ result' = [threw |-> executeCommand(c, historyLength).threw,
                     val   |-> executeCommand(c, historyLength).val]
       /\ events' = executeCommand(c, historyLength).events
       /\ snapshot' = IF c # Null /\ c.action = "analyze"
                      THEN takeSnapshot(DefaultOptions) ELSE snapshot
  /\ op' = "executeCommand"
  /\ UNCHANGED <<docVars, xpArg, xpRet, feArg, feRet, options>>
  /\ UNCHANGED runtimeVars

\* A script of the page removes an element (and its subtree) from the
\* document; the record of the last call no longer describes the document.
PageRemovesElement ==
  /\ \E i \in Elems :
       /\ i > 2 /\ parent[i] # Null
       /\ parent' = [parent EXCEPT ![i] = Null]
  /\ op' = "mutation"
  /\ arg' = Null /\ result' = Return(Null) /\ events' = <<>>
  /\ UNCHANGED <<tag, render, text, xpArg, xpRet, feArg, feRet, options, snapshot>>
  /\ UNCHANGED runtimeVars

NextAgent == ExecuteCommand \/ PageRemovesElement

SpecAgent == InitAgent /\ [][NextAgent]_vars

---------------------------------------------------------------------------
(* The reading functions on a document the page mutates *)

\* Number of elements besides html and body in the documents of SpecRead.
MaxReadElems == 2

ReadKinds ==
  { [tag |-> "div", render |-> "shown",       text |-> <<"a">>],
    [tag |-> "div", render |-> "displayNone", text |-> <<"a">>] }

RECURSIVE ReadKindMaps(_)
ReadKindMaps(n) ==
  IF n <= 2 THEN {<<HtmlKind, BodyKind>>}
  ELSE {Append(m, k) : m \in ReadKindMaps(n - 1), k \in ReadKinds}

InitRead ==
  /\ \E kinds \in ReadKindMaps(2 + MaxReadElems) :
       /\ tag = [i \in 1 .. (2 + MaxReadElems) |-> kinds[i].tag]
       /\ render = [i \in 1 .. (2 + MaxReadElems) |-> kinds[i].render]
       /\ text = [i \in 1 .. (2 + MaxReadElems) |-> kinds[i].text]
  /\ parent \in LightParentMaps(2 + MaxReadElems)
  /\ op = "init"
  /\ xpArg = Null /\ xpRet = Return(<<>>)
  /\ feArg = <<>> /\ feRet = Return(Null)
  /\ options = NoOptions
  /\ snapshot = NoSnapshot
  /\ InitTool
  /\ InitRuntime

\* A call that detaches the last element of the document while it reads.
DetachesLastElement ==
  /\ parent' = [parent EXCEPT ![Len(parent)] = Null]
  /\ UNCHANGED <<tag, render, text>>

\* What the reading functions do to the document: they read parentNode,
\* childNodes, children, tagName, computed styles, boxes and text nodes and
\* assign to nothing of it.
ReadOnly == UNCHANGED docVars

\* A caller invokes takeSnapshot() of the library or of the core.
ReadTakeSnapshot ==
  /\ \E v \in {"library", "core"} :
       /\ arg' = [DefaultOptions EXCEPT !.variant = v]
       /\ result' = Return(takeSnapshot([DefaultOptions EXCEPT !.variant = v]))
  /\ op' = "takeSnapshot"
  /\ ReadOnly
  /\ UNCHANGED <<xpArg, xpRet, feArg, feRet, options, snapshot, events>>
  /\ UNCHANGED runtimeVars

\* A caller invokes getXPath(element).
ReadGetXPath ==
  /\ \E e \in {Null} \cup {El(i) : i \in Elems} :
       /\ arg' = e
       /\ result' = getXPath(e)
  /\ op' = "getXPath"
  /\ ReadOnly
  /\ UNCHANGED <<xpArg, xpRet, feArg, feRet, options, snapshot, events>>
  /\ UNCHANGED runtimeVars

\* A caller invokes findElementByXPath(xpath).
ReadFindElementByXPath ==
  /\ \E x \in TestLocators :
       /\ arg' = x
       /\ result' = findElementByXPath(x)
  /\ op' = "findElementByXPath"
  /\ ReadOnly
  /\ UNCHANGED <<xpArg, xpRet, feArg, feRet, options, snapshot, events>>
  /\ UNCHANGED runtimeVars

\* A caller invokes isElementVisible(element).
ReadIsElementVisible ==
  /\ \E n \in {Null} \cup {El(i) : i \in Elems} :
       /\ arg' = n
       /\ result' = Return(isElementVisible(n))
  /\ op' = "isElementVisible"
  /\ ReadOnly
  /\ UNCHANGED <<xpArg, xpRet, feArg, feRet, options, snapshot, events>>
  /\ UNCHANGED runtimeVars

\* inViewport(rect) on the box of an element.
ReadInViewport ==
  /\ \E i \in Elems :
       /\ arg' = getBoundingClientRect(i)
       /\ result' = Return(inViewport(getBoundingClientRect(i)))
  /\ op' = "inViewport"
  /\ ReadOnly
  /\ UNCHANGED <<xpArg, xpRet, feArg, feRet, options, snapshot, events>>
  /\ UNCHANGED runtimeVars

NextRead ==
  \/ ReadTakeSnapshot
  \/ ReadGetXPath
  \/ ReadFindElementByXPath
  \/ ReadIsElementVisible
  \/ ReadInViewport
  \/ PageRemovesElement

SpecRead == InitRead /\ [][NextRead]_vars

---------------------------------------------------------------------------
(* Calls of groupElementsBySemantic *)

\* Length of the record lists handed to groupElementsBySemantic in SpecGroup.
MaxGroupLen == 3

Rec(t, r, c, x) == [tag |-> t, role |-> r, class |-> c, text |-> x]

\* The records of SpecGroup: tag, role, class attribute and text as
\* takeSnapshot fills them in (role: the role attribute, else the role
\* getElementRole infers from the tag).
GroupRecords ==
  { Rec("nav",    getElementRole(NoRole, "nav", NoRole),         NoAttribute, <<>>),
    Rec("ul",     getElementRole(NoRole, "ul", NoRole),          <<"t", "o", "p", "n", "a", "v">>, <<>>),
    Rec("ul",     getElementRole(NoRole, "ul", NoRole),          <<"m", "e", "n", "u">>, <<>>),
    Rec("a",      getElementRole("navigation", "a", NoRole),     NoAttribute, <<"a">>),
    Rec("button", getElementRole(NoRole, "button", NoRole),      NoAttribute, <<"G", "o">>),
    Rec("input",  getElementRole(NoRole, "input", "text"),       NoAttribute, <<>>),
    Rec("input",  getElementRole(NoRole, "input", "submit"),     NoAttribute, <<>>),
    Rec("img",    getElementRole(NoRole, "img", NoRole),         NoAttribute, <<>>),
    Rec("div",    getElementRole("img", "div", NoRole),          NoAttribute, <<"a">>),
    Rec("div",    getElementRole(NoRole, "div", NoRole),         NoAttribute, <<"a">>),
    Rec("div",    getElementRole(NoRole, "div", NoRole),         NoAttribute, <<>>),
    Rec("span",   getElementRole(NoRole, "span", NoRole),        NoAttribute, <<" ">>),
    Rec("li",     getElementRole(NoRole, "li", NoRole),          NoAttribute, <<"a">>) }

\* The lists of at most n records.
RECURSIVE RecordLists(_)
RecordLists(n) ==
  IF n = 0 THEN {<<>>}
  ELSE RecordLists(n - 1)
         \cup {Append(l, r) : l \in {m \in RecordLists(n - 1) : Len(m) = n - 1},
                               r \in GroupRecords}

InitGroup ==
  /\ tag = <<"html", "body">>
  /\ parent = <<Document, El(1)>>
  /\ render = <<"shown", "shown">>
  /\ text = <<<<>>, <<>>>>
  /\ op = "init"
  /\ xpArg = Null /\ xpRet = Return(<<>>)
  /\ feArg = <<>> /\ feRet = Return(Null)
  /\ options = NoOptions
  /\ snapshot = NoSnapshot
  /\ arg \in RecordLists(MaxGroupLen)
  /\ result = Return(Null)
  /\ events = <<>>
  /\ InitRuntime

\* takeSnapshot hands its records to groupElementsBySemantic.
CallGroupElementsBySemantic ==
  /\ op = "init"
  /\ result' = Return(groupElementsBySemantic(arg))
  /\ op' = "groupElementsBySemantic"
  /\ UNCHANGED <<docVars, xpArg, xpRet, feArg, feRet, options, snapshot, arg, events>>
  /\ UNCHANGED runtimeVars

NextGroup == CallGroupElementsBySemantic

SpecGroup == InitGroup /\ [][NextGroup]_vars

---------------------------------------------------------------------------
(* Extract.elements *)

\* element.textContent: the text of the element and of its descendants.
RECURSIVE textContent(_)
RECURSIVE TextContentOfAll(_)
textContent(i) == text[i] \o TextContentOfAll(children(El(i)))

TextContentOfAll(kids) ==
  IF kids = <<>> THEN <<>>
  ELSE textContent(kids[1]) \o TextContentOfAll(Tail(kids))

\* getVisibleText(element) of tools/utils.js: nothing for an element that is
\* not visible, otherwise the visible text of the child nodes, collapsed
\* and trimmed.
RECURSIVE getVisibleTextUtils(_)
RECURSIVE VisibleTextUtilsOfAll(_)
getVisibleTextUtils(i) ==
  IF ~isElementVisibleUtils(El(i)) THEN <<>>
  ELSE Trim(CollapseSpaces(text[i] \o VisibleTextUtilsOfAll(children(El(i)))))

VisibleTextUtilsOfAll(kids) ==
  IF kids = <<>> THEN <<>>
  ELSE getVisibleTextUtils(kids[1]) \o VisibleTextUtilsOfAll(Tail(kids))

\* String.prototype.toLowerCase on the characters of a string.
LowerCaseAll(s) == [k \in DOMAIN s |-> ToLowerCase(s[k])]

\* document.querySelectorAll(query): raises a SyntaxError for a query that
\* is no selector, otherwise the matching elements in document order.
querySelectorAll(query) ==
  IF ~IsSelector(query) THEN [threw |-> TRUE, nodes |-> <<>>]
  ELSE LET matching == SelectSeq(Descendants(Document),
                                 LAMBDA j : tag[j] = ToLowerCase(query[1]))
       IN [threw |-> FALSE, nodes |-> [k \in DOMAIN matching |-> El(matching[k])]]

\* The text search: the elements whose textContent includes the query,
\* letter case ignored.
TextSearch(query) ==
  LET matching == SelectSeq(Descendants(Document),
                            LAMBDA j : Includes(LowerCaseAll(textContent(j)),
                                                LowerCaseAll(query)))
  IN [threw |-> FALSE, nodes |-> [k \in DOMAIN matching |-> El(matching[k])]]

\* The default of options.limit.
DefaultLimit == 50

\* The result objects of tools/utils.js: createSuccessResult(data) and
\* createErrorResult(message, data).
ExtractSuccess(data) == [success |-> TRUE, error |-> <<>>, data |-> data]

ExtractError(message, query) ==
  [success |-> FALSE, error |-> <<"Extraction failed: ">> \o message,
   data |-> [query |-> query]]

\* The default branch of the switch, outside the try block.
InvalidQueryTypeRaised(queryType) == [raised |-> TRUE, thrown |-> FALSE]

\* The default branch of the switch: throw new Error(`Invalid queryType:
\* ${queryType}`), inside the try block of elements.
InvalidQueryType(queryType) == [raised |-> FALSE, thrown |-> TRUE]

\* The switch over queryType.toLowerCase().
FindByQueryType(query, queryType) ==
  CASE ToLowerCase(queryType) = "css" ->
         [raised |-> FALSE, thrown |-> querySelectorAll(query).threw,
          message |-> <<"SyntaxError">>, nodes |-> querySelectorAll(query).nodes]
    [] ToLowerCase(queryType) = "xpath" ->
         [raised |-> FALSE, thrown |-> Evaluate(query).threw,
          message |-> <<"SyntaxError">>, nodes |-> Evaluate(query).nodes]
    [] ToLowerCase(queryType) = "text" ->
         [raised |-> FALSE, thrown |-> FALSE,
          message |-> <<>>, nodes |-> TextSearch(query).nodes]
    [] OTHER ->
         [raised |-> InvalidQueryType(queryType).raised,
          thrown |-> InvalidQueryType(queryType).thrown,
          message |-> <<"Invalid queryType: ", queryType>>, nodes |-> <<>>]

\* The record elements.map builds for one element with the default extract
\* options.
ExtractRecord(i) ==
  [tag   |-> ToLowerCase(tagName(i)),
   xpath |-> getXPath(El(i)).val,
   text  |-> Trim(getVisibleTextUtils(i)),
   inViewport |-> inViewportCore(getBoundingClientRect(i))]

\* Extract.elements(query, { queryType }) with the defaults of the other
\* options (visible, no viewport filter, limit 50).
ExtractElements(query, queryType) ==
  LET found    == FindByQueryType(query, queryType)
      visible  == SelectSeq(found.nodes, isElementVisibleUtils)
      limited  == IF Len(visible) > DefaultLimit
                  THEN SubSeq(visible, 1, DefaultLimit) ELSE visible
  IN IF found.raised THEN Throw
     ELSE IF found.thrown THEN Return(ExtractError(found.message, query))
     ELSE IF \E k \in DOMAIN limited : ~IsElementNode(limited[k])
     THEN Return(ExtractError(<<"TypeError">>, query))
     ELSE IF \E k \in DOMAIN limited : getXPath(limited[k]).threw
     THEN Return(ExtractError(<<"Error">>, query))
     ELSE Return(ExtractSuccess(
            [query |-> query, queryType |-> queryType,
             count |-> Len(limited), totalMatches |-> Len(visible),
             elements |-> [k \in DOMAIN limited |-> ExtractRecord(limited[k].i)]]))

\* Number of elements besides html and body in the documents of SpecExtract.
MaxExtractElems == 2

ExtractKinds ==
  { [tag |-> "div", render |-> "shown",  text |-> <<"a">>],
    [tag |-> "p",   render |-> "shown",  text |-> <<>>],
    [tag |-> "div", render |-> "hidden", text |-> <<"A">>] }

RECURSIVE ExtractKindMaps(_)
ExtractKindMaps(n) ==
  IF n <= 2 THEN {<<HtmlKind, BodyKind>>}
  ELSE {Append(m, k) : m \in ExtractKindMaps(n - 1), k \in ExtractKinds}

\* The queries: a selector, a locator, a text, the empty string.
ExtractQueries == {<<"div">>, <<"/", "html", "/", "body", "/", "p">>, <<"a">>, <<"/">>, <<>>}

\* The query types: the three of the switch in several letter cases, and
\* others.
QueryTypes == {"css", "CSS", "xpath", "XPath", "text", "regex", ""}

\* What a caller keeps of a result: success and the error message.
Outcome(r) ==
  IF r.threw THEN [threw |-> TRUE, success |-> FALSE, error |-> <<>>]
  ELSE [threw |-> FALSE, success |-> r.val.success, error |-> r.val.error]

InitExtract ==
  /\ \E kinds \in ExtractKindMaps(2 + MaxExtractElems) :
       /\ tag = [i \in 1 .. (2 + MaxExtractElems) |-> kinds[i].tag]
       /\ render = [i \in 1 .. (2 + MaxExtractElems) |-> kinds[i].render]
       /\ text = [i \in 1 .. (2 + MaxExtractElems) |-> kinds[i].text]
  /\ parent \in LightParentMaps(2 + MaxExtractElems)
  /\ op = "init"
  /\ xpArg = Null /\ xpRet = Return(<<>>)
  /\ feArg = <<>> /\ feRet = Return(Null)
  /\ options = NoOptions
  /\ snapshot = NoSnapshot
  /\ InitTool
  /\ InitRuntime

\* A caller invokes Extract.elements(query, { queryType }), any number of
\* times.
CallExtractElements ==
  /\ \E q \in ExtractQueries, t \in QueryTypes :
       /\ arg' = [query |-> q, queryType |-> t]
       /\ result' = ExtractElements(q, t)
  /\ earlier' = IF op = "init" THEN Null ELSE Outcome(result)
  /\ op' = "Extract.elements"
  /\ UNCHANGED <<docVars, xpArg, xpRet, feArg, feRet, options, snapshot, events>>
  /\ UNCHANGED <<batchVars, promise, rejection, timer, observer, settleCalls,
                 matchVars, clockVars, formVars>>

NextExtract == CallExtractElements

SpecExtract == InitExtract /\ [][NextExtract]_vars

---------------------------------------------------------------------------
(* AgentTools.executeCommands *)

\* const results = { success: true, commandResults: [] }
NewBatchResults == [success |-> TRUE, error |-> <<>>, commandResults |-> <<>>]

\* The early return for an input that is no non-empty array.
InvalidCommands ==
  [success |-> FALSE, error |-> <<"Invalid commands: expected non-empty array">>,
   commandResults |-> <<>>]

\* The negation of !Array.isArray(commands) || commands.length === 0
IsCommandArray(cmds) == cmds.isArray /\ cmds.items # <<>>

\* A loop that goes on after a failing command.
StopsAtNoBreak(r) == FALSE

\* if (!result.success) { ...; break; }
StopsAt(r) == ~r.success

\* One turn of the loop: the command at index k (counted from 1) is
\* executed and its result pushed; a failing result ends the loop with
\* the error `Command ${i + 1} failed: ${result.error}`.
AfterCommand(r, k, res, last) ==
  IF StopsAt(r.val)
  THEN [results |-> [res EXCEPT !.commandResults = Append(@, r.val),
                                !.success = FALSE,
                                !.error = <<"Command ", IntToString(k), " failed: ",
                                            r.val.error>>],
        done |-> TRUE, events |-> r.events]
  ELSE [results |-> [res EXCEPT !.commandResults = Append(@, r.val)],
        done |-> k = last, events |-> r.events]

LoopTurn(cmds, k, res, historyLength) ==
  AfterCommand(executeCommand(cmds[k], historyLength), k, res, Len(cmds))

\* Number of elements besides html and body in the documents of SpecBatch.
MaxBatchElems == 1

\* Length of the longest command array.
MaxCommands == 3

ButtonLocator == <<"/", "html", "/", "body", "/", "button">>

\* The commands of the arrays: a click and a hover on the button, a goBack,
\* an analyze and a command without action.
BatchCommands ==
  {Cmd("click", ButtonLocator, "", ""), Cmd("hover", ButtonLocator, "", ""),
   Cmd("goBack", <<>>, "", ""), Cmd("analyze", <<>>, "", ""), Cmd("", <<>>, "", "")}

\* The arrays of up to n commands.
CommandArrays(n) == UNION {[1 .. k -> BatchCommands] : k \in 0 .. n}

\* What a caller hands to executeCommands: arrays, and a value that is no
\* array (null, a string, a single command).
BatchInputs ==
  {[isArray |-> TRUE, items |-> a] : a \in CommandArrays(MaxCommands)}
    \cup {[isArray |-> FALSE, items |-> <<>>]}

InitBatch ==
  /\ tag \in AgentTagMaps(2 + MaxBatchElems)
  /\ parent \in LightParentMaps(2 + MaxBatchElems)
  /\ render = [i \in 1 .. (2 + MaxBatchElems) |-> "shown"]
  /\ text = [i \in 1 .. (2 + MaxBatchElems) |-> <<>>]
  /\ op = "init"
  /\ xpArg = Null /\ xpRet = Return(<<>>)
  /\ feArg = <<>> /\ feRet = Return(Null)
  /\ options = NoOptions
  /\ snapshot = NoSnapshot
  /\ InitTool
  /\ InitRuntime

\* The loop runs the command at index k and then returns or awaits the
\* delay of 500 ms.
RunLoopTurn(cmds, k, res, historyLength) ==
  \E t \in {LoopTurn(cmds, k, res, historyLength)} :
     /\ batchResults' = t.results
     /\ executed' = Append(executed, k)
     /\ events' = events \o t.events
     /\ snapshot' = IF cmds[k].action = "analyze"
                    THEN takeSnapshot(DefaultOptions) ELSE snapshot
     /\ IF t.done
        THEN /\ result' = Return(t.results)
             /\ loopIndex' = 0
             /\ op' = "executeCommands"
        ELSE /\ result' = result
             /\ loopIndex' = k + 1
             /\ op' = "executeCommands.await"

\* A caller invokes AgentTools.executeCommands(commands): the guard, then
\* the loop up to its first await.
CallExecuteCommands ==
  /\ op = "init"
  /\ \E cmds \in BatchInputs, historyLength \in {1, 2} :
       /\ arg' = cmds
       /\ IF ~IsCommandArray(cmds)
          THEN /\ result' = Return(InvalidCommands)
               /\ op' = "executeCommands"
               /\ UNCHANGED <<batchResults, loopIndex, executed, events, snapshot>>
          ELSE RunLoopTurn(cmds.items, 1, NewBatchResults, historyLength)
  /\ UNCHANGED <<docVars, xpArg, xpRet, feArg, feRet, options, earlier>>
  /\ UNCHANGED <<promise, rejection, timer, observer, settleCalls,
                 matchVars, clockVars, formVars>>

\* The delay is over: the loop goes on with the next command.
ResumeExecuteCommands ==
  /\ op = "executeCommands.await"
  /\ \E historyLength \in {1, 2} :
       RunLoopTurn(arg.items, loopIndex, batchResults, historyLength)
  /\ UNCHANGED <<docVars, xpArg, xpRet, feArg, feRet, options, arg, earlier>>
  /\ UNCHANGED <<promise, rejection, timer, observer, settleCalls,
                 matchVars, clockVars, formVars>>

\* A script of the page removes an element during the delay.
PageRemovesElementMeanwhile ==
  /\ op = "executeCommands.await"
  /\ \E i \in Elems :
       /\ i > 2 /\ parent[i] # Null
       /\ parent' = [parent EXCEPT ![i] = Null]
  /\ UNCHANGED <<tag, render, text, op, xpArg, xpRet, feArg, feRet, options, snapshot,
                 toolVars, runtimeVars>>

NextBatch == CallExecuteCommands \/ ResumeExecuteCommands \/ PageRemovesElementMeanwhile

SpecBatch == InitBatch /\ [][NextBatch]_vars

---------------------------------------------------------------------------
(* waitForElement and Perform.click with waitForSelector *)

\* The state of a wait: the promise waitForElement returned ("none" before
\* the call), the error it was rejected with, the timer of setTimeout, the
\* MutationObserver, and the number of calls of resolve and reject.
waitVars == <<promise, rejection, timer, observer, settleCalls>>

\* The timeout a caller passes (the default), as it reads in a message.
WaitTimeout == "30000"

\* document.querySelector(selector) is truthy.
Matches(selector) ==
  LET q == querySelector(selector) IN ~q.threw /\ q.val # Null

\* resolve() and reject(error) of a promise: only a pending promise changes.
Settle(p, outcome) == IF p = "pending" THEN outcome ELSE p

\* A callback that leaves the timer running.
ClearTimeoutForgotten(t) == t

\* if (timeoutId) clearTimeout(timeoutId)
ClearTimeout(t) == IF t = "armed" THEN "cleared" ELSE t

\* new Error(`Element wait timeout after ${timeout}ms: ${selector}`)
WaitTimeoutError(selector) ==
  <<"Element wait timeout after ", WaitTimeout, "ms: ">> \o selector

\* The executor of the promise of waitForElement: resolve at once when the
\* selector matches, otherwise arm the timer and start observing.
StartWait(selector) ==
  IF Matches(selector)
  THEN [promise |-> "fulfilled", timer |-> "none", observer |-> "none", settleCalls |-> 1]
  ELSE [promise |-> "pending", timer |-> "armed", observer |-> "observing", settleCalls |-> 0]

\* The element the click waits on is told of the settled promise: the
\* result Perform.click returns after await waitPromise.
ClickResult(p, error, dispatched) ==
  IF p = "rejected" THEN createErrorResult(error, dispatched)
  ELSE createSuccessResult("click", dispatched)

\* Number of elements besides html and body in the documents of SpecWait.
MaxWaitElems == 2

WaitTags == {"div", "button"}

\* Every element after body is a child of body or not in the document yet.
RECURSIVE WaitParentMaps(_)
WaitParentMaps(n) ==
  IF n <= 2 THEN {<<Document, El(1)>>}
  ELSE {Append(m, p) : m \in WaitParentMaps(n - 1), p \in {Null, El(2)}}

WaitSelectors == {<<"div">>, <<"button">>}

\* The targets of the clicks: a selector, one that matches nothing in these
\* documents, and the empty string.
ClickTargets == {<<"button">>, <<"li">>, <<>>}

InitWait ==
  /\ tag \in TagMaps(2 + MaxWaitElems, WaitTags)
  /\ parent \in WaitParentMaps(2 + MaxWaitElems)
  /\ render = [i \in 1 .. (2 + MaxWaitElems) |-> "shown"]
  /\ text = [i \in 1 .. (2 + MaxWaitElems) |-> <<>>]
  /\ op = "init"
  /\ xpArg = Null /\ xpRet = Return(<<>>)
  /\ feArg = <<>> /\ feRet = Return(Null)
  /\ options = NoOptions
  /\ snapshot = NoSnapshot
  /\ InitTool
  /\ InitRuntime

\* The callback of the MutationObserver, run after a mutation of the
\* subtree of body while the observer is observing: when the selector
\* matches now, the timer is cleared, the observer disconnected and the
\* promise resolved.  The expressions are evaluated on the mutated document.
ObserverCallback(selector) ==
  IF observer = "observing" /\ Matches(selector)'
  THEN /\ timer' = ClearTimeout(timer)
       /\ observer' = "disconnected"
       /\ promise' = Settle(promise, "fulfilled")
       /\ settleCalls' = settleCalls + 1
       /\ rejection' = rejection
  ELSE UNCHANGED waitVars

\* The record of the matches: the selector matched at the call or after a
\* mutation that happened before the timer fired.
RecordMatch(selector) ==
  seenMatch' = (seenMatch \/ (timer # "fired" /\ Matches(selector)'))

\* A caller invokes waitForElement(selector, timeout).
CallWaitForElement ==
  /\ op = "init"
  /\ \E s \in WaitSelectors :
       \E w \in {StartWait(s)} :
          /\ arg' = [target |-> <<>>, selector |-> s]
          /\ promise' = w.promise
          /\ timer' = w.timer
          /\ observer' = w.observer
          /\ settleCalls' = w.settleCalls
          /\ seenMatch' = Matches(s)
  /\ op' = "waitForElement"
  /\ UNCHANGED <<docVars, xpArg, xpRet, feArg, feRet, options, snapshot, result, events,
                 earlier, batchResults, loopIndex, executed, rejection, appeared>>
  /\ UNCHANGED <<clockVars, formVars>>

\* A caller invokes Perform.click(target, { waitForSelector }): the element
\* is looked up, the wait started, the click dispatched; the click handler
\* of the page may add an element to body before the call awaits the wait.
CallPerformClickWaiting ==
  /\ op = "init"
  /\ \E t \in ClickTargets, s \in WaitSelectors :
       \E f \in {findElement(t)}, w \in {StartWait(s)} :
          /\ arg' = [target |-> t, selector |-> s]
          /\ IF f.threw \/ f.val = Null
             THEN /\ result' = Return((IF f.threw
                                       THEN createErrorResult(<<"Click operation failed">>, <<>>)
                                       ELSE createErrorResult(<<"Target element not found">>, <<>>)).val)
                  /\ op' = "Perform.click"
                  /\ UNCHANGED <<docVars, events, waitVars, seenMatch, appeared>>
             ELSE /\ events' = <<Event("click", f.val)>>
                  /\ \/ /\ UNCHANGED docVars
                        /\ promise' = w.promise
                        /\ timer' = w.timer
                        /\ observer' = w.observer
                        /\ settleCalls' = w.settleCalls
                        /\ appeared' = FALSE
                     \/ /\ \E i \in Elems :
                             /\ i > 2 /\ parent[i] = Null
                             /\ parent' = [parent EXCEPT ![i] = El(2)]
                             /\ appeared' = (tag[i] = s[1])
                        /\ UNCHANGED <<tag, render, text>>
                        /\ IF w.observer = "observing" /\ Matches(s)'
                           THEN /\ promise' = "fulfilled"
                                /\ timer' = ClearTimeout(w.timer)
                                /\ observer' = "disconnected"
                                /\ settleCalls' = w.settleCalls + 1
                           ELSE /\ promise' = w.promise
                                /\ timer' = w.timer
                                /\ observer' = w.observer
                                /\ settleCalls' = w.settleCalls
                  /\ rejection' = rejection
                  /\ seenMatch' = (Matches(s) \/ Matches(s)')
                  /\ IF promise' = "pending"
                     THEN /\ op' = "Perform.click.await"
                          /\ result' = result
                     ELSE /\ op' = "Perform.click"
                          /\ result' = Return(ClickResult(promise', rejection', events').val)
  /\ UNCHANGED <<xpArg, xpRet, feArg, feRet, options, snapshot,
                 earlier, batchResults, loopIndex, executed>>
  /\ UNCHANGED <<clockVars, formVars>>

\* The function awaiting the promise goes on when the promise settles.
ResumeAwait ==
  IF op = "Perform.click.await" /\ promise' # "pending"
  THEN /\ op' = "Perform.click"
       /\ result' = Return(ClickResult(promise', rejection', events).val)
  ELSE UNCHANGED <<op, result>>

\* A script of the page adds an element to body or removes one; the
\* observer is notified before any other task runs.
PageMutates ==
  /\ op \in {"waitForElement", "Perform.click.await", "Perform.click"}
  /\ promise # "none"
  /\ \E i \in Elems :
       /\ i > 2
       /\ parent' = [parent EXCEPT ![i] = IF parent[i] = Null THEN El(2) ELSE Null]
       /\ appeared' = (appeared \/ (timer = "armed" /\ parent[i] = Null /\ tag[i] = arg.selector[1]))
  /\ UNCHANGED <<tag, render, text, arg>>
  /\ ObserverCallback(arg.selector)
  /\ RecordMatch(arg.selector)
  /\ ResumeAwait
  /\ UNCHANGED <<xpArg, xpRet, feArg, feRet, options, snapshot, events,
                 earlier, batchResults, loopIndex, executed>>
  /\ UNCHANGED <<clockVars, formVars>>

\* The timer of the wait fires: the observer is disconnected and the
\* promise rejected.
TimerFires ==
  /\ timer = "armed"
  /\ timer' = "fired"
  /\ observer' = "disconnected"
  /\ promise' = Settle(promise, "rejected")
  /\ rejection' = IF promise = "pending" THEN WaitTimeoutError(arg.selector) ELSE rejection
  /\ settleCalls' = settleCalls + 1
  /\ ResumeAwait
  /\ UNCHANGED <<docVars, xpArg, xpRet, feArg, feRet, options, snapshot, arg, events,
                 earlier, batchResults, loopIndex, executed, seenMatch, appeared>>
  /\ UNCHANGED <<clockVars, formVars>>

NextWait == CallWaitForElement \/ CallPerformClickWaiting \/ PageMutates \/ TimerFires

SpecWait == InitWait /\ [][NextWait]_vars

---------------------------------------------------------------------------
(* createLoadPromise, Navigate.to and Navigate.history *)

\* The state of a load promise: the clock in units of 100 ms, the armed
\* timers of setTimeout with the time they are due, the load listener of
\* the window; and of the page: whether its load event has occurred, and
\* which of the load (or the short delay) and the timeout came first.
loadVars == <<now, timers, listener, firstEvent, loaded, promise, rejection, settleCalls>>

\* The clock stops here.
MaxTime == 16

\* The timeouts of the calls, in units of 100 ms.
LoadTimeouts == {2, 4, 10}

\* The delay before handleLoad without waitForLoad (300 ms) and the delay
\* between handleLoad and resolve (500 ms).
ShortDelay == 3

PostLoadDelay == 5

\* `${timeout}` in milliseconds.
MsText(t) == CASE t = 2 -> "200" [] t = 4 -> "400" [] t = 10 -> "1000" [] OTHER -> "0"

Timer(id, due) == [id |-> id, due |-> due]

Armed(id) == {t \in timers : t.id = id}

\* A timeout callback that leaves the load listener on the window.
RemoveEventListenerForgotten(l) == l

\* window.removeEventListener('load', handleLoad)
RemoveEventListener(l) == IF l = "added" THEN "removed" ELSE l

\* new Error(`Loading timeout after ${timeout}ms`)
LoadTimeoutError(timeout) == <<"Loading timeout after ", MsText(timeout), "ms">>

\* The result objects of the Navigate tool.
NavigateSuccess == [success |-> TRUE, error |-> <<>>]

NavigateError(prefix, message) == [success |-> FALSE, error |-> <<prefix>> \o message]

\* The prefix of the catch block of the function that was called.
ErrorPrefix(tool) ==
  IF tool = "Navigate.to" THEN "Navigation failed: " ELSE "History navigation failed: "

\* handleLoad: the timeout is cleared and resolve scheduled.
HandleLoad(ts) ==
  {t \in ts : t.id \notin {"timeout", "handleLoad"}} \cup {Timer("resolve", now + PostLoadDelay)}

\* The executor of createLoadPromise({ waitForLoad, timeout }).
StartLoad(waitForLoad, timeout) ==
  /\ promise' = "pending"
  /\ timers' = {Timer("timeout", now + timeout)}
                 \cup (IF waitForLoad THEN {} ELSE {Timer("handleLoad", now + ShortDelay)})
  /\ listener' = IF waitForLoad THEN "added" ELSE "none"
  /\ UNCHANGED <<now, firstEvent, loaded, rejection, settleCalls>>

InitLoad ==
  /\ tag = <<"html", "body">>
  /\ parent = <<Document, El(1)>>
  /\ render = <<"shown", "shown">>
  /\ text = <<<<>>, <<>>>>
  /\ op = "init"
  /\ xpArg = Null /\ xpRet = Return(<<>>)
  /\ feArg = <<>> /\ feRet = Return(Null)
  /\ options = NoOptions
  /\ snapshot = NoSnapshot
  /\ InitTool
  /\ InitRuntime

Directions == {"back", "forward", "refresh", "sideways"}

\* A caller invokes Navigate.to(url, { waitForLoad, timeout }).
CallNavigateTo ==
  /\ op = "init"
  /\ \E url \in ValidURLs \cup {""}, waitForLoad \in BOOLEAN, timeout \in LoadTimeouts :
       /\ arg' = [tool |-> "Navigate.to", input |-> url,
                  waitForLoad |-> waitForLoad, timeout |-> timeout]
       /\ IF url \notin ValidURLs
          THEN /\ result' = Return(NavigateError("Navigation failed: ", <<"Invalid URL">>))
               /\ op' = "Navigate.to"
               /\ UNCHANGED loadVars
          ELSE /\ StartLoad(waitForLoad, timeout)
               /\ result' = result
               /\ op' = "Navigate.await"
  /\ UNCHANGED <<docVars, xpArg, xpRet, feArg, feRet, options, snapshot, events,
                 earlier, batchResults, loopIndex, executed, timer, observer,
                 seenMatch, appeared, formVars>>

\* A caller invokes Navigate.history(direction, { waitForLoad, timeout })
\* with window.history.length = historyLength.
CallNavigateHistory ==
  /\ op = "init"
  /\ \E direction \in Directions, waitForLoad \in BOOLEAN, timeout \in LoadTimeouts,
        historyLength \in {1, 2} :
       /\ arg' = [tool |-> "Navigate.history", input |-> direction,
                  waitForLoad |-> waitForLoad, timeout |-> timeout]
       /\ IF direction \notin {"back", "forward", "refresh"}
          THEN /\ result' = Return(NavigateError("History navigation failed: ",
                                                 <<"Invalid direction: ", direction>>))
               /\ op' = "Navigate.history"
               /\ UNCHANGED loadVars
          ELSE IF direction = "back" /\ historyLength <= 1
          THEN /\ result' = Return(NavigateError("Cannot go back - no previous page in history",
                                                 <<>>))
               /\ op' = "Navigate.history"
               /\ UNCHANGED loadVars
          ELSE /\ StartLoad(waitForLoad, timeout)
               /\ result' = result
               /\ op' = "Navigate.await"
  /\ UNCHANGED <<docVars, xpArg, xpRet, feArg, feRet, options, snapshot, events,
                 earlier, batchResults, loopIndex, executed, timer, observer,
                 seenMatch, appeared, formVars>>

\* await navigationPromise goes on when the promise settles: the function
\* returns the success result, or the error result of its catch block.
ResumeNavigate ==
  IF op = "Navigate.await" /\ promise' # "pending"
  THEN /\ op' = arg.tool
       /\ result' = Return(IF promise' = "fulfilled" THEN NavigateSuccess
                           ELSE NavigateError(ErrorPrefix(arg.tool), rejection'))
  ELSE UNCHANGED <<op, result>>

NothingElse ==
  UNCHANGED <<docVars, xpArg, xpRet, feArg, feRet, options, snapshot, arg, events,
              earlier, batchResults, loopIndex, executed, timer, observer,
              seenMatch, appeared, formVars>>

\* The load event of the window occurs, once; handleLoad runs when the
\* listener is on the window.
LoadEvent ==
  /\ promise # "none" /\ ~loaded
  /\ loaded' = TRUE
  /\ firstEvent' = IF firstEvent = "none" /\ arg.waitForLoad THEN "load" ELSE firstEvent
  /\ IF listener = "added"
     THEN /\ listener' = "consumed"
          /\ timers' = HandleLoad(timers)
     ELSE UNCHANGED <<listener, timers>>
  /\ UNCHANGED <<now, promise, rejection, settleCalls, op, result>>
  /\ NothingElse

\* The timeout of createLoadPromise fires: the listener is removed and the
\* promise rejected.
TimeoutFires ==
  /\ \E t \in Armed("timeout") :
       /\ t.due = now
       /\ timers' = timers \ {t}
  /\ listener' = RemoveEventListener(listener)
  /\ firstEvent' = IF firstEvent = "none" THEN "timeout" ELSE firstEvent
  /\ promise' = Settle(promise, "rejected")
  /\ rejection' = IF promise = "pending" THEN LoadTimeoutError(arg.timeout) ELSE rejection
  /\ settleCalls' = settleCalls + 1
  /\ UNCHANGED <<now, loaded>>
  /\ ResumeNavigate
  /\ NothingElse

\* The short delay is over and handleLoad runs; a timeout due at the same
\* time was armed earlier and fires first.
ShortDelayFires ==
  /\ \E t \in Armed("handleLoad") : t.due = now
  /\ \A t \in Armed("timeout") : t.due > now
  /\ timers' = HandleLoad(timers)
  /\ firstEvent' = IF firstEvent = "none" THEN "load" ELSE firstEvent
  /\ UNCHANGED <<now, listener, loaded, promise, rejection, settleCalls, op, result>>
  /\ NothingElse

\* The delay after handleLoad is over: resolve is called.
ResolveFires ==
  /\ \E t \in Armed("resolve") :
       /\ t.due = now
       /\ timers' = timers \ {t}
  /\ promise' = Settle(promise, "fulfilled")
  /\ settleCalls' = settleCalls + 1
  /\ UNCHANGED <<now, listener, firstEvent, loaded, rejection>>
  /\ ResumeNavigate
  /\ NothingElse

\* 100 ms pass while no timer is due.
Tick ==
  /\ promise # "none"
  /\ now < MaxTime
  /\ \A t \in timers : t.due > now
  /\ now' = now + 1
  /\ UNCHANGED <<timers, listener, firstEvent, loaded, promise, rejection, settleCalls,
                 op, result>>
  /\ NothingElse

NextLoad ==
  \/ CallNavigateTo
  \/ CallNavigateHistory
  \/ LoadEvent
  \/ TimeoutFires
  \/ ShortDelayFires
  \/ ResolveFires
  \/ Tick

\* Time passes and a timer that is due fires; the load event may never
\* occur.
SpecLoad ==
  /\ InitLoad /\ [][NextLoad]_vars
  /\ WF_vars(Tick) /\ WF_vars(TimeoutFires) /\ WF_vars(ShortDelayFires) /\ WF_vars(ResolveFires)

---------------------------------------------------------------------------
(* Form controls: Perform.type, Perform.select and fillElement *)

\* controls[i] is the state of element i as a form control: element.value
\* of a text field, the values of the options of a select that are
\* selected, and element.multiple.  before is controls at the last call.
NoControl == [value |-> <<>>, selected |-> {}, multiple |-> FALSE]

\* The options of every select of the model, in document order; the text of
\* an option is its value.
OptionOrder == <<"a", "b">>

\* element.value
GetValue(i, ctl) ==
  IF tag[i] # "select" THEN ctl[i].value
  ELSE LET sel == SelectSeq(OptionOrder, LAMBDA o : o \in ctl[i].selected)
       IN IF sel = <<>> THEN <<>> ELSE <<sel[1]>>

\* element.value = v: on a select, the option with that value becomes the
\* only selected one, or none is selected.
SetValue(i, ctl, v) ==
  IF tag[i] # "select" THEN [ctl EXCEPT ![i].value = v]
  ELSE [ctl EXCEPT ![i].selected = IF Len(v) = 1 /\ v[1] \in SelectOptions THEN {v[1]} ELSE {}]

\* option.selected = true
SelectOption(i, ctl, o) ==
  [ctl EXCEPT ![i].selected = IF ctl[i].multiple THEN @ \cup {o} ELSE {o}]

\* The clearing of a field: element.value = '' and the two events.
ClearField(el, ctl, clear) ==
  IF clear
  THEN [controls |-> SetValue(el.i, ctl, <<>>),
        events |-> <<Event("input", el), Event("change", el)>>]
  ELSE [controls |-> ctl, events |-> <<>>]

\* The final events of Perform.type.
FinalEvents(el) == <<Event("input", el), Event("change", el)>>

\* element.value += char and its input event.
TypeChar(el, ctl, char) ==
  [controls |-> SetValue(el.i, ctl, GetValue(el.i, ctl) \o <<char>>),
   events |-> <<Event("input", el)>>]

\* Perform.type(target, text, { clear, delay }) up to its first await or
\* its return: done says the call has returned.
TypeStart(target, txt, clear, delay) ==
  LET f == findElement(target)
  IN IF f.threw
     THEN [done |-> TRUE, controls |-> controls,
           result |-> createErrorResult("Type operation failed", <<>>)]
     ELSE IF f.val = Null
     THEN [done |-> TRUE, controls |-> controls,
           result |-> createErrorResult("Target element not found", <<>>)]
     ELSE IF tag[f.val.i] \notin {"input", "textarea", "select"}
     THEN [done |-> TRUE, controls |-> controls,
           result |-> createErrorResult("Target is not a valid input field", <<>>)]
     ELSE LET c == ClearField(f.val, controls, clear)
          IN IF delay > 0
             THEN IF txt = <<>>
                  THEN [done |-> TRUE, controls |-> c.controls,
                        result |-> createSuccessResult("type", c.events \o FinalEvents(f.val))]
                  ELSE LET t == TypeChar(f.val, c.controls, txt[1])
                       IN IF Len(txt) = 1
                          THEN [done |-> TRUE, controls |-> t.controls,
                                result |-> createSuccessResult(
                                  "type", c.events \o t.events \o FinalEvents(f.val))]
                          ELSE [done |-> FALSE, controls |-> t.controls,
                                result |-> createSuccessResult("type", c.events \o t.events)]
             ELSE [done |-> TRUE, controls |-> SetValue(f.val.i, c.controls, txt),
                   result |-> createSuccessResult("type", c.events \o FinalEvents(f.val))]

\* The values Perform.select is handed, as an array.
RECURSIVE SelectEach(_, _, _)
SelectEach(i, ctl, values) ==
  IF values = <<>> THEN ctl
  ELSE SelectEach(i, IF values[1] \in SelectOptions
                     THEN SelectOption(i, ctl, values[1]) ELSE ctl,
                  Tail(values))

\* Perform.select(target, value, { multiple }): the selections of a
\* multiple select are cleared, the matching options selected, and the
\* change event dispatched, before the number of selections is looked at.
SelectValues(target, values, multipleOption) ==
  LET f == findElement(target)
  IN IF f.threw
     THEN [controls |-> controls, result |-> createErrorResult("Select operation failed", <<>>)]
     ELSE IF f.val = Null
     THEN [controls |-> controls, result |-> createErrorResult("Target element not found", <<>>)]
     ELSE IF tag[f.val.i] # "select"
     THEN [controls |-> controls,
           result |-> createErrorResult("Target is not a select element", <<>>)]
     ELSE IF Len(values) > 1 /\ ~controls[f.val.i].multiple /\ ~multipleOption
     THEN [controls |-> controls,
           result |-> createErrorResult("Multiple values provided", <<>>)]
     ELSE LET cleared  == IF controls[f.val.i].multiple
                          THEN [controls EXCEPT ![f.val.i].selected = {}] ELSE controls
              selected == SelectEach(f.val.i, cleared, values)
              found    == \E k \in DOMAIN values : values[k] \in SelectOptions
          IN [controls |-> selected,
              result |-> IF found
                         THEN createSuccessResult("select", <<Event("change", f.val)>>)
                         ELSE createErrorResult("No matching options found",
                                                <<Event("change", f.val)>>)]

\* What a fillElement(xpath, value) that succeeds does to the controls:
\* element.value = option.value on a select, element.value = value on
\* another element; one that fails has raised before.
FillControls(xpath, v) == SetValue(findElementByXPath(xpath).val.i, controls, <<v>>)

\* Number of elements besides html and body in the documents of SpecForm.
MaxFormElems == 1

FormTags == {"input", "select", "div"}

\* The states a control of a tag can be in.
ControlsOf(t) ==
  CASE t = "input"  -> {[NoControl EXCEPT !.value = v] : v \in {<<>>, <<"x">>}}
    [] t = "select" -> {[NoControl EXCEPT !.selected = {o}] : o \in SelectOptions}
                         \cup {[NoControl EXCEPT !.selected = s, !.multiple = TRUE] :
                                 s \in SUBSET SelectOptions}
    [] OTHER        -> {NoControl}

FormTargets == {<<"input">>, <<"select">>, <<"div">>, <<"li">>, <<>>}

\* The locators handed to fillElement.
FormLocators ==
  {getXPath(El(i)).val : i \in {j \in Elems : j > 2}}
    \cup {<<"/", "html", "/", "body", "/", "li">>, <<"/">>}

TypedTexts == {<<>>, <<"a">>, <<"a", "b">>}

InitForm ==
  /\ tag \in TagMaps(2 + MaxFormElems, FormTags)
  /\ parent \in LightParentMaps(2 + MaxFormElems)
  /\ render = [i \in 1 .. (2 + MaxFormElems) |-> "shown"]
  /\ text = [i \in 1 .. (2 + MaxFormElems) |-> <<>>]
  /\ op = "init"
  /\ xpArg = Null /\ xpRet = Return(<<>>)
  /\ feArg = <<>> /\ feRet = Return(Null)
  /\ options = NoOptions
  /\ snapshot = NoSnapshot
  /\ InitTool
  /\ InitCalls
  /\ controls \in {c \in [1 .. (2 + MaxFormElems) -> UNION {ControlsOf(t) : t \in FormTags \cup {"html"}}] :
                     \A i \in 1 .. (2 + MaxFormElems) : c[i] \in ControlsOf(tag[i])}
  /\ before = controls

FormRest ==
  UNCHANGED <<docVars, xpArg, xpRet, feArg, feRet, options, snapshot,
              earlier, batchResults, executed, promise, rejection, timer, observer,
              settleCalls, matchVars, clockVars>>

\* A caller invokes Perform.type(target, text, { clear, delay }).
CallPerformTypeText ==
  /\ op = "init"
  /\ \E t \in FormTargets, txt \in TypedTexts, clear \in BOOLEAN, delay \in {0, 50} :
       \E s \in {TypeStart(t, txt, clear, delay)} :
          /\ arg' = [target |-> t, text |-> txt, clear |-> clear, delay |-> delay]
          /\ controls' = s.controls
          /\ events' = s.result.events
          /\ IF s.done
             THEN op' = "Perform.type" /\ result' = Return(s.result.val) /\ loopIndex' = 0
             ELSE op' = "Perform.type.await" /\ result' = result /\ loopIndex' = 2
  /\ before' = controls
  /\ FormRest

\* The delay between two keystrokes is over: the next character is typed.
ResumeType ==
  /\ op = "Perform.type.await"
  /\ \E el \in {findElement(arg.target).val} :
     \E t \in {TypeChar(el, controls, arg.text[loopIndex])} :
        /\ controls' = t.controls
        /\ IF loopIndex = Len(arg.text)
           THEN /\ events' = events \o t.events \o FinalEvents(el)
                /\ op' = "Perform.type"
                /\ result' = Return(createSuccessResult("type", <<>>).val)
                /\ loopIndex' = 0
           ELSE /\ events' = events \o t.events
                /\ op' = op /\ result' = result
                /\ loopIndex' = loopIndex + 1
  /\ UNCHANGED <<arg, before>>
  /\ FormRest

\* A caller invokes Perform.select(target, value, { multiple }).
CallPerformSelectValues ==
  /\ op = "init"
  /\ \E t \in FormTargets, values \in {<<"a">>, <<"z">>, <<"b", "a">>, <<"z", "y">>},
        multipleOption \in BOOLEAN :
       \E s \in {SelectValues(t, values, multipleOption)} :
          /\ arg' = [target |-> t, values |-> values, multiple |-> multipleOption]
          /\ controls' = s.controls
          /\ events' = s.result.events
          /\ result' = Return(s.result.val)
  /\ op' = "Perform.select"
  /\ before' = controls
  /\ UNCHANGED loopIndex
  /\ FormRest

\* An agent invokes InteractionTools.fillElement(xpath, value).
CallFillElement ==
  /\ op = "init"
  /\ \E x \in FormLocators, v \in {"a", "z"} :
       \E r \in {fillElement(x, v)} :
          /\ arg' = [target |-> x, value |-> v]
          /\ controls' = IF r.val.success THEN FillControls(x, v) ELSE controls
          /\ events' = r.events
          /\ result' = Return(r.val)
  /\ op' = "fillElement"
  /\ before' = controls
  /\ UNCHANGED loopIndex
  /\ FormRest

NextForm == CallPerformTypeText \/ ResumeType \/ CallPerformSelectValues \/ CallFillElement

SpecForm == InitForm /\ [][NextForm]_vars

---------------------------------------------------------------------------
(* Notions the properties are stated in *)

\* Element i is in the document tree: its parent chain reaches the Document
\* through elements only.
RECURSIVE InDocumentTree(_)
InDocumentTree(i) ==
  \/ parent[i] = Document
  \/ parent[i].k = "element" /\ InDocumentTree(parent[i].i)

\* Element i is a light-DOM descendant of body.
RECURSIVE UnderBody(_)
UnderBody(i) ==
  parent[i].k = "element" /\ (parent[i] = body \/ UnderBody(parent[i].i))

\* a is a proper ancestor of b in the flat (shadow-inclusive) tree.
RECURSIVE FlatAncestor(_, _)
FlatAncestor(a, b) ==
  FlatParent(b) # 0 /\ (FlatParent(b) = a \/ FlatAncestor(a, FlatParent(b)))

\* The elements of the tree below node n in document (pre-)order.
RECURSIVE PreOrder(_)
RECURSIVE PreOrderAll(_)
PreOrder(n) == PreOrderAll(children(n))

PreOrderAll(kids) ==
  IF kids = <<>> THEN <<>>
  ELSE <<kids[1]>> \o PreOrder(El(kids[1])) \o PreOrderAll(Tail(kids))

\* The position of element i in the document order of the document tree.
DocumentPosition(i) ==
  LET order == PreOrder(Document)
  IN CHOOSE k \in DOMAIN order : order[k] = i

\* The elements from the top of the walk of getXPath down to i: the walk
\* ends below the Document, below a shadow root, or at a detached element.
RECURSIVE Chain(_)
Chain(i) ==
  IF parent[i].k = "element" THEN Append(Chain(parent[i].i), i) ELSE <<i>>

\* The segment the specification prescribes for element i: the bare
\* lower-case tag when no sibling element shares the tag, otherwise tag[k]
\* with k one more than the number of preceding siblings with that tag.
PrescribedSegment(i) ==
  LET same == {j \in Elems : parent[j] = parent[i] /\ tag[j] = tag[i]}
  IN IF same = {i} THEN <<tag[i]>>
     ELSE <<tag[i], "[", IntToString(1 + Cardinality({j \in same : j < i})), "]">>

RECURSIVE PrescribedPath(_)
PrescribedPath(chain) ==
  IF chain = <<>> THEN <<>>
  ELSE <<"/">> \o PrescribedSegment(chain[1]) \o PrescribedPath(Tail(chain))

EndsWith(s, suffix) ==
  Len(s) >= Len(suffix) /\ SubSeq(s, Len(s) - Len(suffix) + 1, Len(s)) = suffix

\* The records of the last snapshot.
Records == snapshot.elements

HasRecord(i) == \E k \in DOMAIN Records : Records[k].el = i

\* The element's own style and box, as the properties name them.
OwnStyleHidden(i) ==
  \/ getComputedStyle(i).display = "none"
  \/ getComputedStyle(i).visibility = "hidden"
  \/ getComputedStyle(i).opacity = "0"

OwnBoxEmpty(i) ==
  getBoundingClientRect(i).width = 0 \/ getBoundingClientRect(i).height = 0

OwnBoxOutsideViewport(i) ==
  LET r == getBoundingClientRect(i)
  IN \/ r.x + r.width <= 0
     \/ r.y + r.height <= 0
     \/ r.x >= Window.innerWidth
     \/ r.y >= Window.innerHeight

\* The element is a candidate of the call: its tag is in the relevant set or
\* it carries non-empty visible text.
IsCandidate(i, o) ==
  \/ tagName(i) \in Relevant(o)
  \/ Normalize(IF o.variant = "core" THEN OwnText(i) ELSE getVisibleText(i)) # <<>>

\* The element and every flat-tree ancestor up to body is visible, has a
\* non-empty box and lies in the viewport.
RECURSIVE ShownUpToBody(_)
ShownUpToBody(i) ==
  /\ ~OwnStyleHidden(i) /\ ~OwnBoxEmpty(i) /\ ~OwnBoxOutsideViewport(i)
  /\ (i = 2 \/ (FlatParent(i) # 0 /\ ShownUpToBody(FlatParent(i))))

---------------------------------------------------------------------------
(* Properties *)

\* C1: every record of a snapshot resolves: findElementByXPath of the
\* record's xpath, on the unchanged document, is the element that produced
\* the record (records of elements inside shadow roots included).
C1_RecordsResolve ==
  op = "takeSnapshot" =>
    \A k \in DOMAIN Records :
      findElementByXPath(Records[k].xpath).val = El(Records[k].el)

\* C2: round trip: for every element e of the document tree,
\* findElementByXPath(getXPath(e)) is e.
C2_RoundTrip ==
  (op = "resolve" /\ IsElementNode(xpArg) /\ InDocumentTree(xpArg.i)) =>
    feRet.val = xpArg

\* C3: the locator getXPath returns has, for every level of the walk, the
\* bare lower-case tag when the node is the only child element of its parent
\* with that tag, and tag[k], k = 1 + the number of preceding siblings with
\* the same tag, otherwise.
C3_SiblingDisambiguation ==
  (op \in {"getXPath", "resolve"} /\ IsElementNode(xpArg) /\ ~xpRet.threw) =>
    xpRet.val = PrescribedPath(Chain(xpArg.i))

\* C3 witness: getXPath returned a locator ending in li[2] for the second
\* of three li children of one parent.
C3_Witness ==
  /\ op = "getXPath" /\ IsElementNode(xpArg) /\ ~xpRet.threw
  /\ tag[xpArg.i] = "li"
  /\ Cardinality({j \in Elems : parent[j] = parent[xpArg.i] /\ tag[j] = "li"}) = 3
  /\ Cardinality({j \in Elems : parent[j] = parent[xpArg.i] /\ tag[j] = "li" /\ j < xpArg.i}) = 1
  /\ EndsWith(xpRet.val, <<"li", "[", "2", "]">>)

\* C4: getXPath never raises for a non-null argument (a detached element
\* included) and returns the empty string for null.
C4_NeverRaises ==
  op = "getXPath" =>
    /\ ~xpRet.threw
    /\ (xpArg = Null => xpRet.val = <<>>)

\* C5: findElementByXPath never raises; it returns null for a locator the
\* evaluation rejects and for a locator that matches no node, and otherwise
\* the first matching node in document order.
C5_ResolveTotal ==
  op \in {"findElementByXPath", "resolve"} =>
    LET r == Evaluate(feArg)
    IN /\ ~feRet.threw
       /\ (r.threw \/ r.nodes = <<>>) => feRet.val = Null
       /\ (~r.threw /\ r.nodes # <<>>) =>
            /\ \E k \in DOMAIN r.nodes : feRet.val = r.nodes[k]
            /\ \A k \in DOMAIN r.nodes :
                 IsElementNode(r.nodes[k]) =>
                   DocumentPosition(feRet.val.i) <= DocumentPosition(r.nodes[k].i)

\* C5 witness: a malformed locator was resolved to null.
C5_Witness ==
  /\ op = "findElementByXPath"
  /\ feArg # <<>> /\ Evaluate(feArg).threw
  /\ feRet = Return(Null)

\* C6: the records are in shadow-inclusive pre-order: the record of an
\* element precedes the records of all its descendants, those in its shadow
\* tree included.
C6_PreOrder ==
  op = "takeSnapshot" =>
    \A a, b \in DOMAIN Records :
      FlatAncestor(Records[a].el, Records[b].el) => a < b

\* C7: a visible candidate element inside a shadow root, below visible
\* ancestors, has a record when includeShadowDOM = true and none when
\* includeShadowDOM = false, in the library and in the core takeSnapshot.
C7_ShadowInclusion ==
  op = "takeSnapshot" =>
    \A i \in Elems :
      (parent[i].k = "shadowroot" /\ ShownUpToBody(i) /\ IsCandidate(i, options)) =>
        (HasRecord(i) <=> options.includeShadowDOM)

\* C8: no element whose style is display:none, visibility:hidden or opacity
\* zero, and no element whose box has zero width or zero height, has a
\* record, whatever the elementFilter and the element's text.
C8_VisibilityExclusion ==
  op = "takeSnapshot" =>
    \A k \in DOMAIN Records :
      ~OwnStyleHidden(Records[k].el) /\ ~OwnBoxEmpty(Records[k].el)

\* C8 witness: a snapshot with an elementFilter holds records while the
\* document has a display:none element and a zero-width element carrying text.
C8_Witness ==
  /\ op = "takeSnapshot"
  /\ options.elementFilter.given
  /\ Records # <<>>
  /\ \E i, j \in Elems :
       /\ render[i] = "displayNone" /\ text[i] # <<>>
       /\ render[j] = "zeroWidth" /\ text[j] # <<>>

\* C9: a visible candidate element with a non-empty box entirely outside the
\* viewport has a record with inViewport = false when captureOutOfViewport =
\* true and no record when it is false; with captureOutOfViewport = false
\* every record has inViewport = true.
C9_ViewportFlag ==
  op = "takeSnapshot" =>
    /\ \A i \in Elems :
         (UnderBody(i) /\ ~OwnStyleHidden(i) /\ ~OwnBoxEmpty(i)
            /\ OwnBoxOutsideViewport(i) /\ IsCandidate(i, options)) =>
           IF options.captureOutOfViewport
           THEN \E k \in DOMAIN Records : Records[k].el = i /\ ~Records[k].inViewport
           ELSE ~HasRecord(i)
    /\ ~options.captureOutOfViewport =>
         \A k \in DOMAIN Records : Records[k].inViewport

\* C10: with an elementFilter, every record's tag is, compared without
\* regard to letter case, one of the listed tags.
C10_FilterOnly ==
  (op = "takeSnapshot" /\ options.elementFilter.given) =>
    \A k \in DOMAIN Records :
      \E f \in DOMAIN options.elementFilter.tags :
        ToLowerCase(options.elementFilter.tags[f]) = ToLowerCase(Records[k].tag)

\* The document <body><button>Go</button><div><p>Hi</p></div></body>, every
\* element rendered.
IsScenarioDocument ==
  /\ Elems = 1 .. 5
  /\ tag[3] = "button" /\ tag[4] = "div" /\ tag[5] = "p"
  /\ parent[3] = body /\ parent[4] = body /\ parent[5] = El(4)
  /\ \A i \in Elems : render[i] = "shown"

\* C11: for the document <body><button>Go</button><div><p>Hi</p></div></body>
\* with every element visible, takeSnapshot with the default options returns
\* 3 records.
C11_ScenarioLength ==
  (op = "takeSnapshot" /\ IsScenarioDocument /\ options = DefaultOptions) =>
    Len(Records) = 3

\* C12: takeSnapshot never raises, whatever the options (an elementFilter
\* that is no array included) and the document.
C12_NeverThrows ==
  op \in {"takeSnapshot", "takeSnapshotAgain"} => ~result.threw

\* The element passes the style and box tests of the walk, or its style
\* query raises.
PassesOrRaises(i) ==
  StyleQueryThrows(i) \/ (~OwnStyleHidden(i) /\ ~OwnBoxEmpty(i))

\* Every ancestor of i up to body passes the tests or raises.
RECURSIVE WalkReaches(_)
WalkReaches(i) ==
  i = 2 \/ (parent[i].k = "element" /\ PassesOrRaises(parent[i].i)
              /\ WalkReaches(parent[i].i))

\* C13: an element whose style query raises gets no record, and the walk
\* goes on: every candidate element that is rendered and whose ancestors are
\* rendered or raise still has its record, the descendants of the raising
\* element included.
C13_ErrorIsolation ==
  (op = "takeSnapshot" /\ ~result.threw) =>
    \A i \in Elems :
      /\ StyleQueryThrows(i) => ~HasRecord(i)
      /\ (/\ WalkReaches(i) /\ ~StyleQueryThrows(i)
          /\ ~OwnStyleHidden(i) /\ ~OwnBoxEmpty(i)
          /\ IsCandidate(i, options)) => HasRecord(i)

\* C13 witness: a snapshot holds the record of a child of an element whose
\* style query raised, and of an element after it.
C13_Witness ==
  /\ op = "takeSnapshot" /\ ~result.threw
  /\ \E i, j, k \in Elems :
       /\ StyleQueryThrows(i) /\ parent[j] = El(i) /\ HasRecord(j)
       /\ k > j /\ parent[k] = body /\ HasRecord(k)

NavigationRule(el) ==
  el.role = "navigation" \/ el.tag = "nav" \/ (el.tag = "ul" /\ Includes(el.class, <<"n", "a", "v">>))

InteractionRule(el) == el.tag \in {"button", "a"} \/ el.role \in {"button", "link"}

FormsRule(el) == el.tag \in {"input", "select", "textarea", "form"} \/ el.role = "form"

MediaRule(el) == el.tag \in {"img", "video", "audio"} \/ el.role = "img"

ContentRule(el) ==
  el.tag \in {"h1", "h2", "h3", "h4", "h5", "h6", "p", "span", "div"} /\ Trim(el.text) # <<>>

\* The first group, in the order navigation, interaction, forms, media,
\* content, whose rule the record matches.
FirstMatchingGroup(el) ==
  CASE NavigationRule(el)  -> "navigation"
    [] ~NavigationRule(el) /\ InteractionRule(el) -> "interaction"
    [] ~NavigationRule(el) /\ ~InteractionRule(el) /\ FormsRule(el) -> "forms"
    [] ~NavigationRule(el) /\ ~InteractionRule(el) /\ ~FormsRule(el) /\ MediaRule(el) -> "media"
    [] ~NavigationRule(el) /\ ~InteractionRule(el) /\ ~FormsRule(el) /\ ~MediaRule(el)
         /\ ContentRule(el) -> "content"
    [] OTHER -> "none"

\* C16: each group holds, in input order, exactly the records whose first
\* matching rule (navigation, interaction, forms, media, content) is that
\* group, so no record is in two groups and a record matching no rule is in
\* none; the content group holds only records with non-blank text.
C16_GroupPartition ==
  op = "groupElementsBySemantic" =>
    LET groups == result.val
    IN /\ \A g \in GroupNames :
            groups[g] = SelectSeq(arg, LAMBDA el : FirstMatchingGroup(el) = g)
       /\ Len(groups["navigation"]) + Len(groups["interaction"]) + Len(groups["forms"])
            + Len(groups["media"]) + Len(groups["content"]) <= Len(arg)
       /\ \A k \in DOMAIN groups["content"] : Trim(groups["content"][k].text) # <<>>

\* C16 witness: a link with the role navigation went to the navigation
\* group, a record matched no rule and is in no group, and the interaction
\* group holds a record that came after both.
C16_Witness ==
  /\ op = "groupElementsBySemantic"
  /\ \E k \in DOMAIN result.val["navigation"] : result.val["navigation"][k].tag = "a"
  /\ \E k \in DOMAIN arg : \A g \in GroupNames : \A j \in DOMAIN result.val[g] : result.val[g][j] # arg[k]
  /\ Len(arg) = 3 /\ Len(result.val["interaction"]) = 1
  /\ result.val["interaction"][1] = arg[3]

\* C17: for an element, isElementVisible (library and tools/utils.js) is
\* true when the style query raises; otherwise it is false when the style is
\* display:none, visibility:hidden or opacity zero or the box has zero width
\* or zero height, and true in every other case.
C17_VisibleFailOpen ==
  (op \in {"isElementVisible", "utils.isElementVisible"} /\ IsElementNode(arg)) =>
    /\ ~result.threw
    /\ IF StyleQueryThrows(arg.i) THEN result.val = TRUE
       ELSE result.val = ~(OwnStyleHidden(arg.i) \/ OwnBoxEmpty(arg.i))

\* C17 witness: isElementVisible of tools/utils.js answered true for an
\* element whose style query raised, below a parent that is display:none.
C17_Witness ==
  /\ op = "utils.isElementVisible" /\ IsElementNode(arg)
  /\ StyleQueryThrows(arg.i) /\ parent[arg.i].k = "element"
  /\ render[parent[arg.i].i] = "displayNone"
  /\ result.val = TRUE

\* The target is the locator getXPath returns for the live element i and
\* findElementByXPath resolves it to i.
IsLocatorOf(target, i) ==
  /\ i > 2 /\ InDocumentTree(i)
  /\ getXPath(El(i)) = Return(target)
  /\ findElementByXPath(target).val = El(i)

\* C19: for a target that is the getXPath locator of a live element,
\* findElement returns that element without raising, and Perform.click,
\* Perform.hover and Perform.scroll (and Perform.type on an input) return a
\* success result.
C19_FindElementByLocator ==
  op \in {"findElement", "Perform.click", "Perform.hover", "Perform.scroll", "Perform.type"} =>
    \A i \in Elems :
      IsLocatorOf(arg, i) =>
        /\ op = "findElement" => (~result.threw /\ result.val = El(i))
        /\ op \in {"Perform.click", "Perform.hover", "Perform.scroll"} => result.val.success
        /\ (op = "Perform.type" /\ tag[i] = "input") => result.val.success

\* The calls of the reading functions.
ReadOps == {"takeSnapshot", "getXPath", "findElementByXPath", "isElementVisible", "inViewport"}

C18_LocatorsStayResolvable ==
  \A k \in DOMAIN Records :
    findElementByXPath(Records[k].xpath).val = El(Records[k].el)

\* The command is a click, fill, scroll or hover.
IsInteraction(c) == c # Null /\ c.action \in {"click", "fill", "scroll", "hover"}

\* C20: executeCommand never raises and returns a boolean success; without
\* a command or an action it returns success = false with the error
\* 'Invalid command: missing action'; an unknown action gives success =
\* false; a click, fill, scroll or hover whose xpath resolves to no element
\* gives success = false and dispatches no event.
C20_ExecuteCommandTotal ==
  op = "executeCommand" =>
    /\ ~result.threw
    /\ result.val.success \in BOOLEAN
    /\ (arg = Null \/ arg.action = "") =>
         (~result.val.success /\ result.val.error = "Invalid command: missing action")
    /\ (arg # Null /\ arg.action \notin {"", "click", "fill", "navigate", "scroll", "hover",
                                          "goBack", "analyze"}) => ~result.val.success
    /\ (IsInteraction(arg) /\ ~IsElementNode(findElementByXPath(arg.xpath).val)) =>
         (~result.val.success /\ events = <<>>)

\* C26: within one snapshot no two records share an xpath, records of
\* elements in different shadow roots included.
C26_DistinctLocators ==
  op = "takeSnapshot" =>
    \A a, b \in DOMAIN Records :
      a # b => Records[a].xpath # Records[b].xpath

\* The element itself is visible, has a box and satisfies the inclusion
\* predicate of the call.
CapturableItself(i, o) ==
  /\ UnderBody(i)
  /\ ~StyleQueryThrows(i)
  /\ ~OwnStyleHidden(i) /\ ~OwnBoxEmpty(i)
  /\ IsCandidate(i, o)

\* C27: every element under body that is itself visible, has a non-empty
\* box and satisfies the inclusion predicate has a record, whatever its
\* ancestors are like, when captureOutOfViewport = true; when it is false
\* the same holds for the elements whose own box is in the viewport.
C27_WalkComplete ==
  op = "takeSnapshot" =>
    \A i \in Elems :
      (CapturableItself(i, options)
         /\ (options.captureOutOfViewport \/ ~OwnBoxOutsideViewport(i))) => HasRecord(i)

\* The tag, xpath, text and inViewport of the records of a snapshot.
Captured(snap) ==
  [k \in DOMAIN snap.elements |->
     [el         |-> snap.elements[k].el,
      tag        |-> snap.elements[k].tag,
      xpath      |-> snap.elements[k].xpath,
      text       |-> snap.elements[k].text,
      inViewport |-> snap.elements[k].inViewport]]

\* C30: on a document without shadow roots, the library takeSnapshot and
\* the core takeSnapshot called with the same options capture the same
\* elements in the same order with the same tag, xpath, text and inViewport.
C30_VariantsAgree ==
  (op = "takeSnapshot" /\ \A i \in Elems : parent[i].k # "shadowroot") =>
    Captured(takeSnapshot([options EXCEPT !.variant = "library"]))
      = Captured(takeSnapshot([options EXCEPT !.variant = "core"]))

\* The query type is none of css, xpath and text in any letter case.
IsInvalidQueryType(t) == ToLowerCase(t) \notin {"css", "xpath", "text"}

\* C21: Extract.elements called with a query type other than css, xpath and
\* text returns a failure result whose error names the query type, and does
\* not raise; a call after a failed call returns what it returns on the
\* same document when no call was made before it.
C21_InvalidQueryType ==
  op = "Extract.elements" =>
    /\ IsInvalidQueryType(arg.queryType) =>
         /\ ~result.threw
         /\ result.val.success = FALSE
         /\ Includes(result.val.error, <<arg.queryType>>)
    /\ (earlier # Null /\ ~earlier.success) =>
         result = ExtractElements(arg.query, arg.queryType)

\* A call with a valid query type succeeds right after a call that failed
\* on its query type.
C21_Witness ==
  /\ op = "Extract.elements"
  /\ earlier # Null /\ ~earlier.threw /\ ~earlier.success
  /\ earlier.error = <<"Extraction failed: ", "Invalid queryType: ", "regex">>
  /\ ~result.threw /\ result.val.success
  /\ result.val.data.count > 0

\* The indexes 1 .. n in order.
UpTo(n) == [k \in 1 .. n |-> k]

C25_WaitsForNewElement ==
  (op = "Perform.click" /\ events # <<>>) =>
    (result.val.success <=> appeared)

\* What a call of Navigate.to or Navigate.history has returned: a failure
\* at once when the navigation was not started; otherwise success exactly
\* when the load event (or the short delay) came before the timeout, and a
\* failure carrying "Loading timeout" exactly when the timeout came first,
\* with the load listener no longer on the window.
C24_Outcome ==
  /\ op \in {"Navigate.to", "Navigate.history"} =>
       /\ ~result.threw
       /\ IF promise = "none"
          THEN result.val.success = FALSE /\ timers = {} /\ listener = "none"
          ELSE /\ result.val.success <=> firstEvent = "load"
               /\ ~result.val.success <=>
                    /\ firstEvent = "timeout"
                    /\ Includes(result.val.error, LoadTimeoutError(arg.timeout))
  /\ firstEvent = "timeout" => listener # "added"
  /\ op = "Navigate.await" => promise = "pending" /\ timers # {}

TypedField == findElement(arg.target).val.i

\* C28: Perform.type with clear = false appends the text to the value the
\* field had, whether the delay is 0 or positive; with clear = true the
\* final value is the typed text.
C28_TypeAppends ==
  (op = "Perform.type" /\ result.val.success /\ tag[TypedField] = "input") =>
    GetValue(TypedField, controls)
      = IF arg.clear THEN arg.text
        ELSE GetValue(TypedField, before) \o arg.text

\* C29: a call of Perform.select or fillElement that returns a failure
\* leaves the selected options and the value of every control as they were
\* and dispatches no change or input event.
C29_FailedSelectionLeavesControl ==
  (op \in {"Perform.select", "fillElement"} /\ ~result.val.success) =>
    /\ controls = before
    /\ events = <<>>

====
